---- MODULE Spec2Model ----
(***************************************************************************)
(* Model of the Specification -> Step-Graph generation pipeline of         *)
(* codegen-x: the two validators (codegen/spec_validator.py,               *)
(* codegen/step_graph.py) as operators, and the generation-with-repair     *)
(* loops of FunctionalCodeGenerator (codegen/functional_code_generator.py) *)
(* as a state machine driven by the responses of the text oracle; and the  *)
(* validate/refine loop of CodeGenAgent (agent/code_agent.py) with its     *)
(* tools (tools/*.py) and executor (core/code_executor.py).                *)
(*                                                                         *)
(* Encoding of Python values:                                              *)
(*   Optional[T]      None is <<>>, a value x is <<x>>                     *)
(*   str              a TLA+ string; f-strings become tuples of strings    *)
(*   "a.b.c" paths    the tuple <<"a", "b", "c">>                          *)
(*   list             a sequence;  set: a set                             *)
(***************************************************************************)
EXTENDS Naturals, Integers, Sequences, FiniteSets, TLC

VARIABLES
    request,        \* FunctionalCodeGenerator.request
    spec,           \* self.spec        (Optional[Spec])
    step_graph,     \* self.step_graph  (Optional[StepGraph])
    contract_raw,   \* self.contract_raw, as the index of the oracle response it holds (0: "")
    step_graph_raw, \* self.step_graph_raw, same encoding
    run,            \* [op, outcome]: the method last entered and how it ended ("running": not yet)
    attempt,        \* the local variable attempt of that method
    calls,          \* number of llm.call invocations made by that method (the stub's call_count)
    log,            \* the class of each oracle response that method received, in order
    failed_specs,   \* the failed_spec_<ts>.json files written so far, as their contents
    logic,          \* self.logic: the lines of the anchored skeleton (<<>>: "")
    implementation, \* self.implementation, as the oracle text it holds (<<>>: "")
    in_all,         \* the generate_all call on the stack, if any: "off", "running", "returned", "raised"
    arg,            \* input of the pure function under study (validator specifications)
    ret,            \* Optional result of applying it
    code_graph,     \* a codegen Graph: its nodes, edges and reverse_edges (<<>>: none built)
    workflow,       \* a DAGWorkflow: its nodes and execution_order (<<>>: none built)
    last,           \* the last call made on the graph or the workflow, with its outcome
    agent,          \* CodeGenAgent: its fields and the locals of generate/_execute_workflow (<<>>: none built)
    executor        \* the CodeExecutor of the agent's ValidateTool (<<>>: none built)

vars == <<request, spec, step_graph, contract_raw, step_graph_raw, run,
          attempt, calls, log, failed_specs, logic, implementation, in_all,
          arg, ret, code_graph, workflow, last, agent, executor>>

genVars == <<request, spec, step_graph, contract_raw, step_graph_raw, run,
             attempt, calls, log, failed_specs, logic, implementation, in_all>>

agentVars == <<agent, executor>>

libVars == <<code_graph, workflow, last>>

\* no CodeGenAgent exists: the specifications of the generator and of the validators
NoAgent == agent = <<>> /\ executor = <<>>

\* no Graph and no DAGWorkflow exists
NoLibrary == code_graph = <<>> /\ workflow = <<>> /\ last = <<>>

(***************************************************************************)
(* Bounds of the model                                                     *)
(***************************************************************************)
MaxSteps == 2
MaxOrder == 3
MaxEdges == 1
MaxPreds == 2
MaxExamples == 1
MaxMeta == 1
MaxExcs == 1
MaxApis == 1
MaxRules == 1
MaxRawLen == 2

(***************************************************************************)
(* Generic helpers                                                         *)
(***************************************************************************)
None == <<>>

Some(x) == <<x>>

ToSet(s) == {s[i] : i \in DOMAIN s}

BSeq(S, n) == UNION {[1..k -> S] : k \in 0..n}

RECURSIVE Flatten(_)
Flatten(ss) == IF ss = <<>> THEN <<>> ELSE Head(ss) \o Flatten(Tail(ss))

(***************************************************************************)
(* codegen/step_graph.py                                                   *)
(***************************************************************************)
StepIds == {"", "S1", "S2"}

ForeignStepId == "S9"

PreIds == {"P1"}

PostIds == {"Q1"}

InvIds == {"I1"}

\* Step: the fields StepGraphValidator reads
Step(id, intent, pre, post, inv) ==
    [id |-> id, intent |-> intent, pre_refs |-> pre, post_refs |-> post,
     invariant_refs |-> inv]

StepGraph(steps, edges, order) ==
    [steps |-> steps, edges |-> edges, order |-> order]

\* issues of one step, given the ids seen before it (loop body, lines 79-95)
StepIssuesPooledIds(s, id_set, pre_ids, post_ids, invariant_ids) ==
    LET known == pre_ids \cup post_ids \cup invariant_ids
    IN    (IF s.id = "" THEN << <<"Step id empty">> >> ELSE <<>>)
       \o (IF s.id \in id_set THEN << <<"Duplicate step id", s.id>> >> ELSE <<>>)
       \o (IF s.intent = "" THEN << <<"Step", s.id, "intent empty">> >> ELSE <<>>)
       \o Flatten([i \in DOMAIN s.pre_refs |->
             IF s.pre_refs[i] \notin known
             THEN << <<"Step", s.id, "unknown pre_ref", s.pre_refs[i]>> >> ELSE <<>>])
       \o Flatten([i \in DOMAIN s.post_refs |->
             IF s.post_refs[i] \notin known
             THEN << <<"Step", s.id, "unknown post_ref", s.post_refs[i]>> >> ELSE <<>>])
       \o Flatten([i \in DOMAIN s.invariant_refs |->
             IF s.invariant_refs[i] \notin known
             THEN << <<"Step", s.id, "unknown invariant_ref", s.invariant_refs[i]>> >> ELSE <<>>])

StepIssues(s, id_set, pre_ids, post_ids, invariant_ids) ==
      (IF s.id = "" THEN << <<"Step id empty">> >> ELSE <<>>)
   \o (IF s.id \in id_set THEN << <<"Duplicate step id", s.id>> >> ELSE <<>>)
   \o (IF s.intent = "" THEN << <<"Step", s.id, "intent empty">> >> ELSE <<>>)
   \o Flatten([i \in DOMAIN s.pre_refs |->
         IF s.pre_refs[i] \notin pre_ids
         THEN << <<"Step", s.id, "unknown pre_ref", s.pre_refs[i]>> >> ELSE <<>>])
   \o Flatten([i \in DOMAIN s.post_refs |->
         IF s.post_refs[i] \notin post_ids
         THEN << <<"Step", s.id, "unknown post_ref", s.post_refs[i]>> >> ELSE <<>>])
   \o Flatten([i \in DOMAIN s.invariant_refs |->
         IF s.invariant_refs[i] \notin invariant_ids
         THEN << <<"Step", s.id, "unknown invariant_ref", s.invariant_refs[i]>> >> ELSE <<>>])

RECURSIVE StepsIssues(_, _, _, _, _)
StepsIssues(steps, id_set, pre_ids, post_ids, invariant_ids) ==
    IF steps = <<>> THEN <<>>
    ELSE StepIssues(Head(steps), id_set, pre_ids, post_ids, invariant_ids)
         \o StepsIssues(Tail(steps), id_set \cup {Head(steps).id},
                        pre_ids, post_ids, invariant_ids)

\* "for a, b in graph.edges": an edge that is not a pair cannot be unpacked
EdgesUnpack(edges) == \A i \in DOMAIN edges : Len(edges[i]) = 2

EdgeIssues(e, step_ids) ==
      (IF e[1] \notin step_ids THEN << <<"Edge parent", e[1], "not a step id">> >> ELSE <<>>)
   \o (IF e[2] \notin step_ids THEN << <<"Edge child", e[2], "not a step id">> >> ELSE <<>>)

\* set(graph.order) != step_ids, guarded by "if graph.order"
OrderCovers(order, step_ids) == ToSet(order) = step_ids

OrderIssues(order, step_ids) ==
    IF order # <<>> /\ ~OrderCovers(order, step_ids)
    THEN << <<"Order does not cover exactly all step ids">> >> ELSE <<>>

\* StepGraphValidator.validate: the exception it ends with ("none": returns)
\* and the issues joined into the message
StepGraphValidate(graph, pre_ids, post_ids, invariant_ids) ==
    LET step_ids == {graph.steps[i].id : i \in DOMAIN graph.steps}
        stepPart == StepsIssues(graph.steps, {}, pre_ids, post_ids, invariant_ids)
    IN  IF ~EdgesUnpack(graph.edges)
        THEN [raised |-> "ValueError", issues |-> <<>>]
        ELSE LET issues == stepPart
                        \o Flatten([i \in DOMAIN graph.edges |->
                                      EdgeIssues(graph.edges[i], step_ids)])
                        \o OrderIssues(graph.order, step_ids)
             IN  [raised |-> IF issues # <<>> THEN "StepGraphValidationError" ELSE "none",
                  issues |-> issues]

(***************************************************************************)
(* codegen/spec_validator.py                                               *)
(***************************************************************************)
\* ValidationIssue
Issue(code, location, message, severity) ==
    [code |-> code, location |-> location, message |-> message, severity |-> severity]

\* ValidationIssue.format: f"{severity}:{code}::{location}::{message}"
Format(issue) == <<issue.severity, issue.code, issue.location, issue.message>>

Err(code, loc, msg) == Issue(code, loc, msg, "ERROR")

Warn(code, loc, msg) == Issue(code, loc, msg, "WARNING")

\* the result of one check: what it appends to errors and to warnings
EW(e, w) == [e |-> e, w |-> w]

NoIssues == EW(<<>>, <<>>)

RECURSIVE Collect(_)
Collect(rs) ==
    IF rs = <<>> THEN NoIssues
    ELSE LET rest == Collect(Tail(rs))
         IN  EW(Head(rs).e \o rest.e, Head(rs).w \o rest.w)

SAFE_CALL_WHITELIST == {"len", "abs", "min", "max", "sum", "all", "any"}

FORBIDDEN_API_INTERNAL == {<<"__import__">>, <<"eval">>, <<"exec">>}

COMPLEXITY_RULES_ALLOWED ==
    {"no_sort", "no_quadratic_nested_loops", "no_hash_map", "no_recursion"}

META_RELATIONS_ALLOWED ==
    {"equal", "subset", "permutation", "length_non_decreasing", "custom"}

RESULT_NAMES == {"result", "original_result", "new_result"}

\* the tokens of the quick textual scan of _validate_expr
FORBIDDEN_TOKENS ==
    {<<";">>, <<"__", "import", "__">>, <<"import", " ">>, <<"exec", "(">>, <<"eval", "(">>}

\* ---- expressions --------------------------------------------------------
\* An expression string is described by what the validator observes of it:
\* src, the text as the sequence of its lexical units (<<>> when empty; a
\* forbidden token is a run of consecutive units), and tree (Optional: what
\* ast.parse(expr, mode='eval') returns, None when it raises).  A tree node
\* has a kind, a name (Name.id, Attribute.attr), a ctx (Name only) and its
\* children in field order.
Node(kind, name, ctx, kids) == [kind |-> kind, name |-> name, ctx |-> ctx, kids |-> kids]

NameN(id) == Node("Name", id, "Load", <<>>)

StoreN(id) == Node("Name", id, "Store", <<>>)

ConstN == Node("Constant", "", "", <<>>)

CompareN(l, r) == Node("Compare", "", "", <<l, r>>)

CallN(func, args) == Node("Call", "", "", <<func>> \o args)

AttrN(value, attr) == Node("Attribute", attr, "", <<value>>)

LambdaN(body) == Node("Lambda", "", "", <<body>>)

NamedExprN(target, value) == Node("NamedExpr", "", "", <<target, value>>)

Expr(src, tree) == [src |-> src, tree |-> tree]

\* tok in expr
Occurs(tok, text) ==
    \E i \in 1..(Len(text) - Len(tok) + 1) : \A j \in 1..Len(tok) : text[i + j - 1] = tok[j]

\* ast.walk: breadth-first, the queue extended by each node's children
RECURSIVE Walk(_)
Walk(queue) ==
    IF queue = <<>> THEN <<>>
    ELSE <<Head(queue)>> \o Walk(Tail(queue) \o Head(queue).kids)

\* _extract_call_name
ExtractCallName(call) ==
    LET func == call.kids[1]
    IN  IF func.kind = "Name" THEN func.name
        ELSE IF func.kind = "Attribute" THEN func.name
        ELSE "<unknown>"

FORBIDDEN_SYNTAX ==
    {"Import", "ImportFrom", "Lambda", "With", "Try", "FunctionDef", "ClassDef"}

\* one iteration of "for n in ast.walk(node)"
NodeIssues(n, params, location) ==
    IF n.kind = "Call"
    THEN IF ExtractCallName(n) \notin SAFE_CALL_WHITELIST
         THEN EW(<<Err("PRED_UNSAFE_NODE", location, <<"Call not allowed", ExtractCallName(n)>>)>>, <<>>)
         ELSE NoIssues
    ELSE IF n.kind \in FORBIDDEN_SYNTAX
    THEN EW(<<Err("PRED_UNSAFE_NODE", location, <<"Forbidden syntax", n.kind>>)>>, <<>>)
    ELSE IF n.kind = "Name"
    THEN IF n.name \notin params /\ n.name \notin RESULT_NAMES /\ n.ctx # "Store"
         THEN EW(<<>>, <<Warn("PRED_NAME_UNKNOWN", location, <<"Name not in params", n.name>>)>>)
         ELSE NoIssues
    ELSE NoIssues

\* _validate_expr
ValidateExpr(expr, params, location) ==
    IF \E tok \in FORBIDDEN_TOKENS : Occurs(tok, expr.src)
    THEN EW(<<Err("PRED_UNSAFE_NODE", location, <<"Contains forbidden token">>)>>, <<>>)
    ELSE IF expr.tree = None
    THEN EW(<<Err("PRED_EXPR_INVALID", location, <<"Parse error">>)>>, <<>>)
    ELSE LET body  == expr.tree[1]
             nodes == Walk(<<body>>)
             walk  == Collect([i \in DOMAIN nodes |-> NodeIssues(nodes[i], params, location)])
         IN  IF body.kind = "Constant"
             THEN EW(walk.e, walk.w \o <<Warn("PRED_TRIVIAL", location, <<"Predicate is a constant">>)>>)
             ELSE walk

\* _validate_predicate_expr
ValidatePredicateExpr(predicate, params, group) ==
    IF predicate.expr.src = <<>>
    THEN EW(<<Err("PRED_EXPR_INVALID", <<group, predicate.id>>, <<"Empty expression">>)>>, <<>>)
    ELSE ValidateExpr(predicate.expr, params, <<group, predicate.id, "expr">>)

\* the id loops of _check_id_uniqueness, _check_example_ids, _check_meta_ids:
\* items are [id, group]; context is the location prefix
RECURSIVE CheckIds(_, _, _, _)
CheckIds(items, seen, withGroup, labels) ==
    IF items = <<>> THEN <<>>
    ELSE LET it  == Head(items)
             ctx == IF withGroup THEN <<labels.context, it.group>> ELSE <<labels.context>>
         IN  IF it.id = ""
             THEN <<Err("ID_CONFLICT", ctx, <<labels.empty>>)>>
                  \o CheckIds(Tail(items), seen, withGroup, labels)
             ELSE IF it.id \in seen
             THEN <<Err("ID_CONFLICT", ctx \o <<it.id>>, <<labels.dup>>)>>
                  \o CheckIds(Tail(items), seen, withGroup, labels)
             ELSE CheckIds(Tail(items), seen \cup {it.id}, withGroup, labels)

Tagged(items, group) == [i \in DOMAIN items |-> [id |-> items[i].id, group |-> group]]

\* _check_id_uniqueness(spec.pre + spec.post + spec.invariants, errors, "predicates")
CheckIdUniqueness(preds, context) ==
    EW(CheckIds(Tagged(preds, ""), {}, FALSE,
                [context |-> context, empty |-> "Predicate id empty",
                 dup |-> "Duplicate predicate id"]), <<>>)

\* _check_example_ids
CheckExampleIds(s) ==
    EW(CheckIds(Tagged(s.positive, "positive") \o Tagged(s.negative, "negative"), {}, TRUE,
                [context |-> "examples", empty |-> "Example id empty",
                 dup |-> "Duplicate example id"]), <<>>)

\* _check_meta_ids
CheckMetaIds(s) ==
    EW(CheckIds(Tagged(s.metamorphic_relations, ""), {}, FALSE,
                [context |-> "metamorphic_relations", empty |-> "Relation id empty",
                 dup |-> "Duplicate relation id"]), <<>>)

IdxStr(i) == <<"0", "1", "2", "3", "4", "5", "6", "7">>[i]

\* sorted(names), for the names of the model
NameOrder == <<"k", "nums">>

Sorted(names) == SelectSeq(NameOrder, LAMBDA n : n \in names)

\* "not ex.raises": None and "" are both falsy
RaisesSet(ex) == ex.raises # None /\ ex.raises # <<"">>

\* one example of _validate_examples
ExampleIssuesOutputUnchecked(ex, group, params) ==
    LET loc     == <<"examples", group, IF ex.id = "" THEN "<?>" ELSE ex.id>>
        missing == params \ ex.inputs.keys
    IN  EW(  (IF group = "negative" /\ ~RaisesSet(ex)
              THEN <<Err("EXAMPLE_INVALID", loc, <<"Negative example must have 'raises'">>)>> ELSE <<>>)
          \o (IF group # "negative" /\ RaisesSet(ex)
              THEN <<Err("EXAMPLE_INVALID", loc, <<"Positive example must not set 'raises'">>)>> ELSE <<>>)
          \o (IF ~ex.inputs.json_safe
              THEN <<Err("EXAMPLE_INVALID", loc, <<"inputs not JSON serializable">>)>> ELSE <<>>),
             IF group = "positive" /\ missing # {}
             THEN <<Warn("EXAMPLE_INPUT_MISSING", loc, <<"Missing params">> \o Sorted(missing))>> ELSE <<>>)

ExampleIssues(ex, group, params) ==
    LET loc     == <<"examples", group, IF ex.id = "" THEN "<?>" ELSE ex.id>>
        missing == params \ ex.inputs.keys
    IN  EW(  (IF group = "negative" /\ ~RaisesSet(ex)
              THEN <<Err("EXAMPLE_INVALID", loc, <<"Negative example must have 'raises'">>)>> ELSE <<>>)
          \o (IF group = "negative" /\ ex.output # None
              THEN <<Err("EXAMPLE_INVALID", loc, <<"Negative example should not define output">>)>> ELSE <<>>)
          \o (IF group # "negative" /\ RaisesSet(ex)
              THEN <<Err("EXAMPLE_INVALID", loc, <<"Positive example must not set 'raises'">>)>> ELSE <<>>)
          \o (IF ~ex.inputs.json_safe
              THEN <<Err("EXAMPLE_INVALID", loc, <<"inputs not JSON serializable">>)>> ELSE <<>>),
             IF group = "positive" /\ missing # {}
             THEN <<Warn("EXAMPLE_INPUT_MISSING", loc, <<"Missing params">> \o Sorted(missing))>> ELSE <<>>)

\* _validate_examples
ValidateExamples(s, params) ==
    Collect([i \in DOMAIN s.positive |-> ExampleIssues(s.positive[i], "positive", params)]
         \o [i \in DOMAIN s.negative |-> ExampleIssues(s.negative[i], "negative", params)])

\* _validate_metamorphic
ValidateMetamorphic(m, idx, params) ==
    LET loc == <<"metamorphic_relations", IdxStr(idx), IF m.id = "" THEN "?" ELSE m.id>>
    IN  Collect(<<
          EW(  (IF m.relation \notin META_RELATIONS_ALLOWED
                THEN <<Err("META_RELATION_INVALID", loc, <<"Unknown relation", m.relation>>)>> ELSE <<>>)
            \o (IF m.transform_inputs = ""
                THEN <<Err("META_RELATION_INVALID", loc, <<"transform_inputs empty">>)>> ELSE <<>>)
            \o (IF m.relation = "custom" /\ m.oracle_expr.src = <<>>
                THEN <<Err("META_RELATION_INVALID", loc, <<"custom relation requires oracle_expr">>)>> ELSE <<>>),
               <<>>),
          IF m.oracle_expr.src # <<>>
          THEN ValidateExpr(m.oracle_expr, params \cup {"original_result", "new_result"},
                            loc \o <<"oracle_expr">>)
          ELSE NoIssues >>)

\* re.match(r"^[A-Za-z_][A-Za-z0-9_]*(\.[A-Za-z_][A-Za-z0-9_]*)*$", api), on a
\* token given as its lexical units: identifiers, digit runs, "." and others
IdentUnits == {"os", "system", "eval", "exec", "__import__"}

DigitUnits == {"9"}

RECURSIVE ApiMatch(_, _)
ApiMatch(units, state) ==
    IF units = <<>> THEN state = "ident"
    ELSE IF state = "start"
    THEN Head(units) \in IdentUnits /\ ApiMatch(Tail(units), "ident")
    ELSE IF Head(units) \in IdentUnits \cup DigitUnits THEN ApiMatch(Tail(units), "ident")
    ELSE Head(units) = "." /\ ApiMatch(Tail(units), "start")

\* the loop body over spec.forbidden_apis
ForbiddenApiIssues(api, i) ==
    EW(  (IF ~ApiMatch(api, "start")
          THEN <<Err("FORBIDDEN_API_FORMAT", <<"forbidden_apis", IdxStr(i)>>, <<"Invalid api token">> \o api)>>
          ELSE <<>>)
      \o (IF api \in FORBIDDEN_API_INTERNAL
          THEN <<Err("FORBIDDEN_API_FORMAT", <<"forbidden_apis", IdxStr(i)>>, <<"Internal unsafe api not allowed">> \o api)>>
          ELSE <<>>),
         <<>>)

\* str.strip on a unit sequence
RECURSIVE LStrip(_)
LStrip(u) == IF u # <<>> /\ Head(u) = " " THEN LStrip(Tail(u)) ELSE u

RECURSIVE RStrip(_)
RStrip(u) == IF u # <<>> /\ u[Len(u)] = " " THEN RStrip(SubSeq(u, 1, Len(u) - 1)) ELSE u

Strip(u) == RStrip(LStrip(u))

\* re.match(r"^O\([^()]+\)$", big_o.strip())
BigOMatch(big_o) ==
    LET u == Strip(big_o)
    IN  /\ Len(u) >= 4
        /\ u[1] = "O" /\ u[2] = "(" /\ u[Len(u)] = ")"
        /\ \A i \in 3..(Len(u) - 1) : u[i] \notin {"(", ")"}

\* the complexity block
ComplexityIssues(s) ==
    IF s.complexity_guarantee = None THEN NoIssues
    ELSE LET cg == s.complexity_guarantee[1]
         IN  EW(IF ~BigOMatch(cg.big_o)
                THEN <<Err("COMPLEXITY_INVALID", <<"complexity_guarantee", "big_o">>, <<"big_o must look like O(n)">>)>>
                ELSE <<>>,
                Flatten([i \in DOMAIN cg.witness_rules |->
                    IF cg.witness_rules[i] \notin COMPLEXITY_RULES_ALLOWED
                    THEN <<Warn("COMPLEXITY_INVALID", <<"complexity_guarantee", "witness_rules">>,
                                <<"Unknown rule", cg.witness_rules[i]>>)>>
                    ELSE <<>>]))

\* the structure checks at the head of validate
StructureIssues(s) ==
    EW(  (IF s.spec_version # 2
          THEN <<Err("STRUCTURE_ERROR", <<"spec_version">>, <<"spec_version must be 2">>)>> ELSE <<>>)
      \o (IF s.main_function = None \/ s.main_function[1].name = ""
          THEN <<Err("STRUCTURE_ERROR", <<"main_function", "name">>, <<"Main function name missing">>)>> ELSE <<>>)
      \o (IF s.main_function # None /\ s.main_function[1].return_type = ""
          THEN <<Err("STRUCTURE_ERROR", <<"main_function", "signature", "return_type">>, <<"Return type missing">>)>>
          ELSE <<>>),
         <<>>)

\* the predicate loop over ("pre", "post", "invariants")
PredicateIssues(s, params) ==
    Collect([i \in DOMAIN s.pre |-> ValidatePredicateExpr(s.pre[i], params, "pre")]
         \o [i \in DOMAIN s.post |-> ValidatePredicateExpr(s.post[i], params, "post")]
         \o [i \in DOMAIN s.invariants |-> ValidatePredicateExpr(s.invariants[i], params, "invariants")])

\* the loop over spec.types.exceptions (idx is zero-based in the source)
ExceptionIssues(s, params) ==
    Collect([i \in DOMAIN s.exceptions |->
        LET exc  == s.exceptions[i]
            pred == IF exc.predicate.src # <<>>
                    THEN ValidateExpr(exc.predicate, params,
                                      <<"types", "exceptions", IdxStr(i), "predicate">>)
                    ELSE NoIssues
        IN  EW(pred.e \o (IF exc.type = ""
                          THEN <<Err("STRUCTURE_ERROR", <<"types", "exceptions", IdxStr(i), "type">>,
                                     <<"Exception type empty">>)>>
                          ELSE <<>>),
               pred.w)])

\* the coverage block
CoverageIssuesLenient(s) ==
    EW(<<>>,
         (IF Len(s.pre) = 0
          THEN <<Warn("COVERAGE_INSUFFICIENT", <<"pre">>, <<"At least one pre predicate required">>)>> ELSE <<>>)
      \o (IF Len(s.post) = 0
          THEN <<Warn("COVERAGE_INSUFFICIENT", <<"post">>, <<"At least one post predicate required">>)>> ELSE <<>>)
      \o (IF Len(s.positive) = 0
          THEN <<Warn("COVERAGE_INSUFFICIENT", <<"examples", "positive">>, <<"No positive examples provided">>)>> ELSE <<>>)
      \o (IF Len(s.negative) = 0
          THEN <<Warn("COVERAGE_INSUFFICIENT", <<"examples", "negative">>, <<"No negative examples provided">>)>> ELSE <<>>))

CoverageIssues(s) ==
    EW(  (IF Len(s.pre) = 0
          THEN <<Err("COVERAGE_INSUFFICIENT", <<"pre">>, <<"At least one pre predicate required">>)>> ELSE <<>>)
      \o (IF Len(s.post) = 0
          THEN <<Err("COVERAGE_INSUFFICIENT", <<"post">>, <<"At least one post predicate required">>)>> ELSE <<>>),
         (IF Len(s.positive) = 0
          THEN <<Warn("COVERAGE_INSUFFICIENT", <<"examples", "positive">>, <<"No positive examples provided">>)>> ELSE <<>>)
      \o (IF Len(s.negative) = 0
          THEN <<Warn("COVERAGE_INSUFFICIENT", <<"examples", "negative">>, <<"No negative examples provided">>)>> ELSE <<>>))

\* cls._check_id_uniqueness(spec.pre + spec.post + spec.invariants, errors, context="predicates")
PredicateIdIssuesPerGroup(s) ==
    Collect(<<CheckIdUniqueness(s.pre, "predicates"), CheckIdUniqueness(s.post, "predicates"),
              CheckIdUniqueness(s.invariants, "predicates")>>)

PredicateIdIssues(s) == CheckIdUniqueness(s.pre \o s.post \o s.invariants, "predicates")

\* the checks of validate in source order, each with what it found
Checks(s) ==
    LET params == s.params
    IN  << StructureIssues(s),
           PredicateIdIssues(s),
           CheckExampleIds(s),
           CheckMetaIds(s),
           PredicateIssues(s, params),
           ExceptionIssues(s, params),
           ValidateExamples(s, params),
           Collect([i \in DOMAIN s.metamorphic_relations |->
                       ValidateMetamorphic(s.metamorphic_relations[i], i, params)]),
           Collect([i \in DOMAIN s.forbidden_apis |-> ForbiddenApiIssues(s.forbidden_apis[i], i)]),
           ComplexityIssues(s),
           CoverageIssues(s) >>

\* errors and warnings are appended to by every check, whatever came before
RECURSIVE AccumulateUntilError(_)
AccumulateUntilError(checks) ==
    IF checks = <<>> THEN NoIssues
    ELSE IF Head(checks).e # <<>> THEN Head(checks)
    ELSE LET rest == AccumulateUntilError(Tail(checks))
         IN  EW(rest.e, Head(checks).w \o rest.w)

Accumulate(checks) == Collect(checks)

\* SpecValidator.validate: raised is "SpecValidationError" with message the
\* formatted errors joined by "\n", or "none" with the returned (errors, warnings)
SpecValidate(s) ==
    LET found == Accumulate(Checks(s))
    IN  IF found.e # <<>>
        THEN [raised |-> "SpecValidationError",
              message |-> [i \in DOMAIN found.e |-> Format(found.e[i])],
              errors |-> <<>>, warnings |-> <<>>]
        ELSE [raised |-> "none", message |-> <<>>,
              errors |-> found.e, warnings |-> found.w]

(***************************************************************************)
(* codegen/spec.py: the Spec values the validator is applied to            *)
(***************************************************************************)
Predicate(id, expr) == [id |-> id, expr |-> expr]

Example(id, inputs, output, raises) ==
    [id |-> id, inputs |-> inputs, output |-> output, raises |-> raises]

\* Example.inputs: its keys, and whether json.dumps accepts its values
Inputs(keys, json_safe) == [keys |-> keys, json_safe |-> json_safe]

MetamorphicRelation(id, transform_inputs, relation, oracle_expr) ==
    [id |-> id, transform_inputs |-> transform_inputs, relation |-> relation,
     oracle_expr |-> oracle_expr]

ExceptionSpec(type, predicate) == [type |-> type, predicate |-> predicate]

ComplexityGuarantee(big_o, witness_rules) == [big_o |-> big_o, witness_rules |-> witness_rules]

MainFunction(name, return_type) == [name |-> name, return_type |-> return_type]

\* sample expressions
ExprEmpty == Expr(<<>>, None)

ExprNumsNotNone ==
    Expr(<<"nums", " ", "is", " ", "not", " ", "None">>, Some(CompareN(NameN("nums"), ConstN)))

ExprResultGe0 == Expr(<<"result", " ", ">=", " ", "0">>, Some(CompareN(NameN("result"), ConstN)))

ExprLen ==
    Expr(<<"len", "(", "nums", ")", " ", ">=", " ", "0">>,
         Some(CompareN(CallN(NameN("len"), <<NameN("nums")>>), ConstN)))

ExprFoo == Expr(<<"foo", "(", "nums", ")">>, Some(CallN(NameN("foo"), <<NameN("nums")>>)))

ExprSort == Expr(<<"nums", ".", "sort", "(", ")">>, Some(CallN(AttrN(NameN("nums"), "sort"), <<>>)))

\* nums.max() > 0: a method call whose attribute is named like a whitelisted built-in
ExprMethodMax ==
    Expr(<<"nums", ".", "max", "(", ")", " ", ">", " ", "0">>,
         Some(CompareN(CallN(AttrN(NameN("nums"), "max"), <<>>), ConstN)))

ExprImport ==
    Expr(<<"__", "import", "__", "(", "'os'", ")">>, Some(CallN(NameN("__import__"), <<ConstN>>)))

\* import os: a statement, which ast.parse(mode='eval') refuses
ExprImportStmt == Expr(<<"import", " ", "os">>, None)

\* import<TAB>os: no "import " in the text, still a statement
ExprImportTab == Expr(<<"import", "\t", "os">>, None)

\* imported > 0: the letters of import inside an identifier
ExprImportedName ==
    Expr(<<"import", "ed", " ", ">", " ", "0">>, Some(CompareN(NameN("imported"), ConstN)))

ExprEval == Expr(<<"eval", "(", "nums", ")">>, Some(CallN(NameN("eval"), <<NameN("nums")>>)))

ExprExec == Expr(<<"exec", "(", "'x'", ")">>, Some(CallN(NameN("exec"), <<ConstN>>)))

ExprEvalSpaced == Expr(<<"eval", " ", "(", "nums", ")">>, Some(CallN(NameN("eval"), <<NameN("nums")>>)))

ExprSyntax == Expr(<<"nums", " ", ">">>, None)

ExprTrue == Expr(<<"True">>, Some(ConstN))

ExprUnknownName == Expr(<<"x", " ", ">", " ", "0">>, Some(CompareN(NameN("x"), ConstN)))

ExprLambdaCall == Expr(<<"(", "lambda", ":", " ", "1", ")", "(", ")">>, Some(CallN(LambdaN(ConstN), <<>>)))

ExprWalrus ==
    Expr(<<"(", "y", " ", ":=", " ", "nums", ")", " ", "is", " ", "None">>,
         Some(CompareN(NamedExprN(StoreN("y"), NameN("nums")), ConstN)))

ExprMetaEqual ==
    Expr(<<"original_result", " ", "==", " ", "new_result">>,
         Some(CompareN(NameN("original_result"), NameN("new_result"))))

AllExprs == {ExprEmpty, ExprNumsNotNone, ExprResultGe0, ExprLen, ExprFoo, ExprSort, ExprMethodMax,
             ExprImport, ExprImportStmt, ExprImportTab, ExprImportedName, ExprEval, ExprExec,
             ExprEvalSpaced, ExprSyntax, ExprTrue, ExprUnknownName, ExprLambdaCall, ExprWalrus}

PredP1 == Predicate("P1", ExprNumsNotNone)

PredQ1 == Predicate("Q1", ExprResultGe0)

GoodPositive == Example("E1", Inputs({"nums"}, TRUE), Some(2), None)

GoodNegative == Example("E2", Inputs({"nums"}, TRUE), None, Some("ValueError"))

\* the valid specification of tests/test_step_graph_generation.py, with one
\* positive and one negative example
BaseSpec ==
    [spec_version |-> 2,
     main_function |-> Some(MainFunction("demo_func", "int")),
     params |-> {"nums"},
     exceptions |-> <<>>,
     pre |-> <<PredP1>>,
     post |-> <<PredQ1>>,
     invariants |-> <<>>,
     positive |-> <<GoodPositive>>,
     negative |-> <<GoodNegative>>,
     metamorphic_relations |-> <<>>,
     forbidden_apis |-> <<>>,
     complexity_guarantee |-> Some(ComplexityGuarantee(<<"O", "(", "n", ")">>, <<>>))]

MainFunctions ==
    {None, Some(MainFunction("", "int")), Some(MainFunction("demo_func", "")),
     Some(MainFunction("demo_func", "int"))}

IdPreds == {Predicate(id, ExprNumsNotNone) : id \in {"", "P1", "Q1"}}

ExamplePool ==
    {Example("E1", i, o, r) :
        i \in {Inputs({"nums"}, TRUE), Inputs({}, TRUE), Inputs({"nums"}, FALSE)},
        o \in {None, Some(2)},
        r \in {None, Some(""), Some("ValueError")}}
    \cup {Example("", Inputs({"nums"}, TRUE), Some(2), None)}

ExcPool == {ExceptionSpec(t, e) : t \in {"", "ValueError"}, e \in {ExprEmpty, ExprNumsNotNone, ExprFoo, ExprMethodMax, ExprEval}}

MetaPool ==
    {MetamorphicRelation(id, t, r, e) :
        id \in {"", "M1"}, t \in {"", "lambda a: a"}, r \in {"equal", "custom", "bogus"},
        e \in {ExprEmpty, ExprMetaEqual, ExprFoo, ExprMethodMax}}

ApiPool ==
    {<<"os">>, <<"os", ".", "system">>, <<"eval">>, <<"os", ".">>, <<".", "os">>,
     <<"9", "os">>, <<"os", "9">>, <<"-">>, <<>>, <<"os", ".", "eval">>}

BigOPool ==
    {<<"O", "(", "n", ")">>, <<" ", "O", "(", "n", " ", "n", ")", " ">>, <<"O", "(", ")">>,
     <<"n">>, <<"O", "(", "(", "n", ")", ")">>, <<>>, <<"O", "(", "n", ")", "n">>}

RulePool == {"no_sort", "no_loops"}

PredSlice(base) ==
    {[base EXCEPT !.pre = a, !.post = b, !.invariants = c] :
        a \in BSeq(IdPreds, MaxPreds), b \in BSeq(IdPreds, MaxPreds), c \in BSeq(IdPreds, MaxPreds)}

ExprSlice(base) ==
    {[base EXCEPT !.pre = <<Predicate("P1", e)>>, !.exceptions = x, !.params = ps] :
        e \in AllExprs, x \in BSeq(ExcPool, MaxExcs), ps \in {{}, {"nums"}}}

MetaSlice(base) ==
    {[base EXCEPT !.metamorphic_relations = m, !.pre = a] :
        m \in BSeq(MetaPool, MaxMeta), a \in {<<>>, <<PredP1>>}}

ExampleSlice(base) ==
    {[base EXCEPT !.positive = p, !.negative = n] :
        p \in BSeq(ExamplePool, MaxExamples), n \in {<<>>, <<GoodNegative>>}}
    \cup {[base EXCEPT !.positive = p, !.negative = n] :
        p \in {<<>>, <<GoodPositive>>}, n \in BSeq(ExamplePool, MaxExamples)}
    \cup {[base EXCEPT !.positive = <<p>>, !.negative = <<n>>] : p \in ExamplePool, n \in ExamplePool}

ApiSlice(base) ==
    {[base EXCEPT !.forbidden_apis = f, !.complexity_guarantee = c] :
        f \in BSeq(ApiPool, MaxApis),
        c \in {None} \cup {Some(ComplexityGuarantee(b, r)) : b \in BigOPool, r \in BSeq(RulePool, MaxRules)}}

CrossSlice(base) ==
    {[base EXCEPT !.spec_version = v, !.main_function = m, !.pre = a, !.post = b,
                      !.positive = p, !.negative = n, !.forbidden_apis = f, !.params = ps] :
        v \in {1, 2}, m \in MainFunctions,
        a \in {<<>>, <<PredP1>>, <<Predicate("P1", ExprFoo)>>},
        b \in {<<>>, <<PredQ1>>, <<PredP1>>},
        p \in {<<>>, <<GoodPositive>>, <<Example("E1", Inputs({}, TRUE), Some(2), Some("ValueError"))>>},
        n \in {<<>>, <<GoodNegative>>, <<Example("E2", Inputs({"nums"}, TRUE), Some(2), None)>>},
        f \in {<<>>, << <<"eval">> >>},
        ps \in {{"nums"}, {"nums", "k"}}}

(***************************************************************************)
(* The step graphs the validator is applied to                             *)
(***************************************************************************)
RefStepPool ==
    {Step(id, "do", p, <<>>, <<>>) : id \in {"S1", "S2"}, p \in {<<>>, <<"P1">>, <<"Q1">>, <<"P1", "Q2">>}}
    \cup {Step(id, "do", <<>>, q, <<>>) : id \in {"S1", "S2"}, q \in {<<"Q1">>, <<"P1">>}}
    \cup {Step(id, "do", <<>>, <<>>, <<"I1">>) : id \in {"S1", "S2"}}
    \cup {Step("S1", "do", <<"Q1">>, <<"P1">>, <<"I1">>), Step("S2", "do", <<"P1">>, <<"Q1">>, <<"I1">>)}

IdStepPool == {Step(id, intent, <<>>, <<>>, <<>>) : id \in StepIds, intent \in {"", "do"}}

CrossStepPool ==
    {Step("S1", "validate input", <<"P1">>, <<>>, <<>>),
     Step("S2", "compute length", <<>>, <<"Q1">>, <<>>),
     Step("S2", "compute length", <<>>, <<"Q2">>, <<>>),
     Step("S1", "validate input", <<"Q1">>, <<>>, <<>>)}

EdgePool ==
    {<<a, b>> : a \in {"S1", "S2", ForeignStepId}, b \in {"S1", "S2", ForeignStepId}}
    \cup {<<"S1">>}

ValidatorCall(graph, pre_ids, post_ids, invariant_ids) ==
    [graph |-> graph, pre_ids |-> pre_ids, post_ids |-> post_ids, invariant_ids |-> invariant_ids]

RefSlice(pre_ids, post_ids) ==
    {ValidatorCall(StepGraph(st, <<>>, <<>>), pre_ids, post_ids, inv) :
        st \in BSeq(RefStepPool, MaxSteps), inv \in {{}, InvIds}}

EdgeSlice(pre_ids, post_ids) ==
    {ValidatorCall(StepGraph(st, e, <<>>), pre_ids, post_ids, {}) :
        st \in BSeq(IdStepPool, MaxSteps), e \in BSeq(EdgePool, MaxEdges)}

OrderSlice(pre_ids, post_ids) ==
    {ValidatorCall(StepGraph(st, <<>>, o), pre_ids, post_ids, {}) :
        st \in BSeq(IdStepPool, MaxSteps), o \in BSeq({"S1", "S2", ForeignStepId}, MaxOrder)}

GraphCrossSlice(pre_ids, post_ids) ==
    {ValidatorCall(StepGraph(st, e, o), pre_ids, post_ids, {}) :
        st \in BSeq(CrossStepPool, MaxSteps),
        e \in BSeq({<<a, b>> : a \in {"S1", "S2"}, b \in {"S1", "S2"}} \cup {<<"S1", ForeignStepId>>}, MaxEdges),
        o \in BSeq({"S1", "S2"}, MaxOrder)}

(***************************************************************************)
(* Specifications of the two validators as pure functions: the input is    *)
(* drawn in the initial state, the one action applies the validator        *)
(***************************************************************************)
GeneratorConstructed ==
    /\ spec = None
    /\ step_graph = None
    /\ contract_raw = 0
    /\ step_graph_raw = 0
    /\ run = [op |-> "__init__", outcome |-> "returned"]
    /\ attempt = 0
    /\ calls = 0
    /\ log = <<>>
    /\ failed_specs = {}
    /\ logic = <<>>
    /\ implementation = <<>>
    /\ in_all = "off"

InitSV ==
    /\ \/ arg \in PredSlice(BaseSpec)
       \/ arg \in ExprSlice(BaseSpec)
       \/ arg \in MetaSlice(BaseSpec)
       \/ arg \in ExampleSlice(BaseSpec)
       \/ arg \in ApiSlice(BaseSpec)
       \/ arg \in CrossSlice(BaseSpec)
    /\ ret = None
    /\ request = ""
    /\ GeneratorConstructed
    /\ NoAgent
    /\ NoLibrary

RunSpecValidate ==
    /\ ret = None
    /\ ret' = Some(SpecValidate(arg))
    /\ UNCHANGED <<arg, genVars, agentVars, libVars>>

NextSV == RunSpecValidate

SpecSV == InitSV /\ [][NextSV]_vars

InitSGV ==
    /\ \/ arg \in RefSlice(PreIds, PostIds)
       \/ arg \in EdgeSlice(PreIds, PostIds)
       \/ arg \in OrderSlice(PreIds, PostIds)
       \/ arg \in GraphCrossSlice(PreIds, PostIds)
    /\ ret = None
    /\ request = ""
    /\ GeneratorConstructed
    /\ NoAgent
    /\ NoLibrary

RunStepGraphValidate ==
    /\ ret = None
    /\ ret' = Some(StepGraphValidate(arg.graph, arg.pre_ids, arg.post_ids, arg.invariant_ids))
    /\ UNCHANGED <<arg, genVars, agentVars, libVars>>

NextSGV == RunStepGraphValidate

SpecSGV == InitSGV /\ [][NextSGV]_vars

(***************************************************************************)
(* codegen/functional_code_generator.py: the oracle's responses            *)
(*                                                                         *)
(* A response text is its sequence of lexical units "{", "}" and "w" (any  *)
(* other text), and, when the slice the generator cuts out of it is a JSON *)
(* object, the content of that object (data).                              *)
(***************************************************************************)
RawUnits == {"{", "}", "w"}

\* str.find / str.rfind, zero-based, -1 when absent
Find(t, c) ==
    IF \E i \in DOMAIN t : t[i] = c
    THEN (CHOOSE i \in DOMAIN t : t[i] = c /\ \A j \in 1..(i - 1) : t[j] # c) - 1
    ELSE -1

RFind(t, c) ==
    IF \E i \in DOMAIN t : t[i] = c
    THEN (CHOOSE i \in DOMAIN t : t[i] = c /\ \A j \in (i + 1)..Len(t) : t[j] # c) - 1
    ELSE -1

\* t[a:b] for 0 <= a, b <= len(t)
Slice(t, a, b) == SubSeq(t, a + 1, b)

\* json.loads on a unit sequence: the only object is "{" content "}"
JsonLoads(candidate) == candidate = <<"{", "}">>

\* the try block that cuts the JSON out of raw: TRUE when json_obj is obtained
ParseJson(toks) ==
    LET json_start == Find(toks, "{")
        json_end   == RFind(toks, "}") + 1
    IN  IF json_start = -1 \/ json_end = 0 THEN FALSE
        ELSE JsonLoads(Slice(toks, json_start, json_end))

Get(d, k, default) == IF k \in DOMAIN d THEN d[k] ELSE default

\* LegacyParameter(**p): the keyword arguments the dataclass accepts
LegacyParameterAccepts(keys) ==
    /\ {"name", "type"} \subseteq keys
    /\ keys \subseteq {"name", "type", "description", "constraints"}

\* Predicate.from_dict
PredicateFromDict(d) == Predicate(Get(d, "id", ""), Get(d, "expr", ExprEmpty))

\* Spec.from_dict raises (TypeError) when a signature parameter has a key
\* LegacyParameter does not take
SpecFromDictRaises(data) ==
    /\ "main_function" \in DOMAIN data
    /\ \E i \in DOMAIN data.main_function.parameters :
          ~LegacyParameterAccepts(data.main_function.parameters[i])

\* Spec.from_dict, for the fields the validators read
SpecFromDict(data) ==
    [spec_version |-> Get(data, "spec_version", 2),
     main_function |->
        IF "main_function" \in DOMAIN data
        THEN Some(MainFunction(Get(data.main_function, "name", ""),
                               Get(data.main_function, "return_type", "Any")))
        ELSE None,
     params |-> Get(data, "params", {}),
     exceptions |-> Get(data, "exceptions", <<>>),
     pre |-> [i \in DOMAIN Get(data, "pre", <<>>) |-> PredicateFromDict(data.pre[i])],
     post |-> [i \in DOMAIN Get(data, "post", <<>>) |-> PredicateFromDict(data.post[i])],
     invariants |-> [i \in DOMAIN Get(data, "invariants", <<>>) |-> PredicateFromDict(data.invariants[i])],
     positive |-> Get(data, "positive", <<>>),
     negative |-> Get(data, "negative", <<>>),
     metamorphic_relations |-> Get(data, "metamorphic_relations", <<>>),
     forbidden_apis |-> Get(data, "forbidden_apis", <<>>),
     complexity_guarantee |->
        IF "complexity_guarantee" \in DOMAIN data
        THEN Some(ComplexityGuarantee(data.complexity_guarantee, <<>>))
        ELSE None]

\* JSON objects offered as specifications
JsonMain(keys) == [name |-> "demo_func", return_type |-> "int", parameters |-> <<keys>>]

JsonP1 == [id |-> "P1", expr |-> ExprNumsNotNone]

JsonQ1 == [id |-> "Q1", expr |-> ExprResultGe0]

\* the valid specification of tests/test_step_graph_generation.py (no examples)
JsonValidSpec ==
    [spec_version |-> 2, main_function |-> JsonMain({"name", "type", "description", "constraints"}),
     params |-> {"nums"}, pre |-> <<JsonP1>>, post |-> <<JsonQ1>>, invariants |-> <<>>,
     complexity_guarantee |-> <<"O", "(", "n", ")">>]

SpecJsonPool ==
    {JsonValidSpec,
     JsonValidSpec @@ [positive |-> <<GoodPositive>>, negative |-> <<GoodNegative>>],
     [JsonValidSpec EXCEPT !.post = <<[id |-> "P1", expr |-> ExprResultGe0]>>],
     [JsonValidSpec EXCEPT !.pre = <<[id |-> "P1", expr |-> ExprFoo]>>],
     [JsonValidSpec EXCEPT !.pre = <<[id |-> "P1"]>>],
     [JsonValidSpec EXCEPT !.invariants = <<[id |-> "I1", expr |-> ExprLen]>>],
     [JsonValidSpec EXCEPT !.main_function = JsonMain({"name", "type", "default"})],
     [params |-> {"nums"}, pre |-> <<JsonP1>>, post |-> <<JsonQ1>>]}

\* validate_json_against_schema(json_obj, schema): the schema file is not part
\* of the sources, so the list of schema errors comes with the response
SchemaErrorPool == {<<>>, <<"<root>: schema violation">>}

SpecPayloads ==
    {[data |-> d, schema_errors |-> e] : d \in SpecJsonPool, e \in SchemaErrorPool}
    \cup {[data |-> [spec_version |-> 2], schema_errors |-> <<"<root>: 'pre' is a required property">>]}

NoPayload == [data |-> [none |-> TRUE], schema_errors |-> <<>>]

\* a response is its text and the object json.loads finds in it: the bare
\* object text carries every payload, a text with prose around the object
\* carries the payloads of "wrapped" (the extraction drops the prose, so the
\* loop treats a payload alike under every text that parses)
BareObject == <<"{", "}">>

Responses(payloads, wrapped) ==
    {[toks |-> BareObject, payload |-> pl] : pl \in payloads}
    \cup {[toks |-> t, payload |-> pl] :
              t \in {u \in BSeq(RawUnits, MaxRawLen) : ParseJson(u)} \ {BareObject}, pl \in wrapped}
    \cup {[toks |-> t, payload |-> NoPayload] : t \in {u \in BSeq(RawUnits, MaxRawLen) : ~ParseJson(u)}}

\* the responses generate_spec can receive
SpecResponses == Responses(SpecPayloads, SpecPayloads)

\* Step.from_dict / StepGraph.from_dict
StepFromDict(d) ==
    Step(Get(d, "id", ""), Get(d, "intent", ""), Get(d, "pre_refs", <<>>),
         Get(d, "post_refs", <<>>), Get(d, "invariant_refs", <<>>))

\* a steps entry that is not a JSON object has no .get (AttributeError)
StepGraphFromDictRaises(data) ==
    \E i \in DOMAIN Get(data, "steps", <<>>) : "not_an_object" \in DOMAIN data.steps[i]

StepGraphFromDict(data) ==
    StepGraph([i \in DOMAIN Get(data, "steps", <<>>) |-> StepFromDict(data.steps[i])],
              Get(data, "edges", <<>>),
              Get(data, "order", <<>>))

JsonS1 == [id |-> "S1", intent |-> "validate input", pre_refs |-> <<"P1">>]

JsonS2 == [id |-> "S2", intent |-> "compute length", post_refs |-> <<"Q1">>]

GraphJsonPool ==
    {[steps |-> st, edges |-> e, order |-> o] :
        st \in {<<>>, <<JsonS1>>, <<JsonS1, JsonS2>>, <<JsonS1, JsonS1>>,
                <<JsonS1, [id |-> "S2", intent |-> "compute length", post_refs |-> <<"Q2">>]>>,
                <<JsonS1, [id |-> "S2", intent |-> "use invariant", invariant_refs |-> <<"I1">>]>>},
        e \in {<<>>, << <<"S1", "S2">> >>, << <<"S2", "S1">> >>, << <<"S1", "S1">> >>,
               << <<"S1", "S2">>, <<"S2", "S1">> >>, << <<"S1">> >>},
        o \in {<<>>, <<"S1", "S2">>, <<"S2", "S1">>, <<"S1", "S2", "S2">>, <<"S1">>}}
    \cup {[steps |-> <<JsonS1, JsonS2>>, edges |-> << <<"S1", "S2">> >>],
          [steps |-> <<JsonS1, [not_an_object |-> TRUE]>>],
          [version |-> 1]}

GraphPayloads == {[data |-> d, schema_errors |-> <<>>] : d \in GraphJsonPool}

\* the responses generate_step_graph can receive; the objects without an
\* "order" key also come with prose around them
GraphResponses == Responses(GraphPayloads, {pl \in GraphPayloads : "order" \notin DOMAIN pl.data})

(***************************************************************************)
(* codegen/functional_code_generator.py: generate_spec, generate_step_graph *)
(***************************************************************************)
\* max_attempts of generate_spec and of generate_step_graph
SpecMaxAttempts == 4

StepGraphMaxAttempts == 3

\* "while attempt < max_attempts"
LoopContinuesInclusive(a, max_attempts) == a <= max_attempts

LoopContinues(a, max_attempts) == a < max_attempts

Requests == {<<>>, <<" ">>, <<"demo request">>}

SpecAttemptResultUnvalidated(r) ==
    IF ~ParseJson(r.toks) THEN [class |-> "parse", assigned |-> None, warned |-> 0]
    ELSE IF r.payload.schema_errors # <<>> THEN [class |-> "schema", assigned |-> None, warned |-> 0]
    ELSE IF SpecFromDictRaises(r.payload.data) THEN [class |-> "construct", assigned |-> None, warned |-> 0]
    ELSE [class |-> "ok", assigned |-> Some(SpecFromDict(r.payload.data)), warned |-> 0]

\* an iteration that treats every issue of the validator as an error
SpecAttemptResultStrict(r) ==
    IF ~ParseJson(r.toks) THEN [class |-> "parse", assigned |-> None, warned |-> 0]
    ELSE IF r.payload.schema_errors # <<>> THEN [class |-> "schema", assigned |-> None, warned |-> 0]
    ELSE IF SpecFromDictRaises(r.payload.data) THEN [class |-> "construct", assigned |-> None, warned |-> 0]
    ELSE LET s == SpecFromDict(r.payload.data)
             v == SpecValidate(s)
         IN  IF v.raised # "none" \/ v.warnings # <<>>
             THEN [class |-> "semantic", assigned |-> Some(s), warned |-> 0]
             ELSE [class |-> "ok", assigned |-> Some(s), warned |-> 0]

\* what one iteration of generate_spec's loop does with the response r:
\* class is the branch taken ("ok": the return), assigned is what the
\* iteration assigns to self.spec (None: no assignment), warned is the number
\* of validator warnings the iteration logs ("for w in warnings")
SpecAttemptResult(r) ==
    IF ~ParseJson(r.toks) THEN [class |-> "parse", assigned |-> None, warned |-> 0]
    ELSE IF r.payload.schema_errors # <<>> THEN [class |-> "schema", assigned |-> None, warned |-> 0]
    ELSE IF SpecFromDictRaises(r.payload.data) THEN [class |-> "construct", assigned |-> None, warned |-> 0]
    ELSE LET s == SpecFromDict(r.payload.data)
             v == SpecValidate(s)
         IN  IF v.raised # "none"
             THEN [class |-> "semantic", assigned |-> Some(s), warned |-> 0]
             ELSE [class |-> "ok", assigned |-> Some(s), warned |-> Len(v.warnings)]

\* {p.id for p in self.spec.pre} etc.
PredIds(preds) == {preds[i].id : i \in DOMAIN preds}

\* "if not candidate.order: candidate.order = [s.id for s in candidate.steps]"
OrderFallback(g) ==
    IF g.order = <<>> THEN [g EXCEPT !.order = [i \in DOMAIN g.steps |-> g.steps[i].id]] ELSE g

\* "len(set(candidate.order)) != len(candidate.steps)" raises
OrderSanityFails(g) == Cardinality(ToSet(g.order)) # Len(g.steps)

\* what one iteration of generate_step_graph's loop does with the response r,
\* under the stored specification s
StepGraphAttemptResult(r, s) ==
    IF ~ParseJson(r.toks) THEN [class |-> "parse", assigned |-> None]
    ELSE IF StepGraphFromDictRaises(r.payload.data) THEN [class |-> "construct", assigned |-> None]
    ELSE LET candidate == StepGraphFromDict(r.payload.data)
             v == StepGraphValidate(candidate, PredIds(s.pre), PredIds(s.post), PredIds(s.invariants))
         IN  IF v.raised = "StepGraphValidationError" THEN [class |-> "validation", assigned |-> None]
             ELSE IF v.raised # "none" THEN [class |-> "construct", assigned |-> None]
             ELSE IF OrderSanityFails(OrderFallback(candidate))
             THEN [class |-> "validation", assigned |-> None]
             ELSE [class |-> "ok", assigned |-> Some(OrderFallback(candidate))]

\* ghost record of a response: the branch the loop took, whether the text
\* holds a JSON object anywhere, whether the response passes every check, and
\* the number of validator warnings written to the log for it
Logged(class, has_json, valid, warned) ==
    [class |-> class, has_json |-> has_json, valid |-> valid, warned |-> warned]

ContainsJsonObject(toks) == \E i \in 1..(Len(toks) - 1) : toks[i] = "{" /\ toks[i + 1] = "}"

SpecResponseValid(r) ==
    /\ ParseJson(r.toks)
    /\ r.payload.schema_errors = <<>>
    /\ ~SpecFromDictRaises(r.payload.data)
    /\ SpecValidate(SpecFromDict(r.payload.data)).raised = "none"

StepGraphResponseValid(r, s) ==
    /\ ParseJson(r.toks)
    /\ ~StepGraphFromDictRaises(r.payload.data)
    /\ StepGraphValidate(StepGraphFromDict(r.payload.data),
                         PredIds(s.pre), PredIds(s.post), PredIds(s.invariants)).raised = "none"
    /\ ~OrderSanityFails(OrderFallback(StepGraphFromDict(r.payload.data)))

Init ==
    /\ request \in Requests
    /\ GeneratorConstructed
    /\ NoAgent
    /\ NoLibrary
    /\ arg = None
    /\ ret = None

Idle == run.outcome # "running"

\* no generate_all is on the stack or has ended: the caller invokes a stage itself
DirectCall == Idle /\ in_all = "off"

\* generate_all has got past the stage prev: that call returned to it
AllReaches(prev) == in_all = "running" /\ run = [op |-> prev, outcome |-> "returned"]

\* generate_all has no try block: an exception of a stage leaves it at once,
\* and the return of generate_implementation is followed by its own return
AllAfter(all, r) ==
    IF all # "running" THEN all
    ELSE IF r.outcome \notin {"running", "returned"} THEN "raised"
    ELSE IF r = [op |-> "generate_implementation", outcome |-> "returned"] THEN "returned"
    ELSE "running"

\* _save_failed_spec(raw, "Exceeded max attempts for spec generation"): one more
\* file, holding the raw response (by its index) and the failure reason
SaveFailedSpec(raw) ==
    failed_specs \cup {[method |-> "generate_spec", raw |-> raw,
                        errors |-> "Exceeded max attempts for spec generation"]}

\* generate_spec up to its first oracle call
EnterGenerateSpec ==
    /\ run' = [op |-> "generate_spec",
               outcome |-> IF Strip(request) = <<>> THEN "ValueError"
                           ELSE IF LoopContinues(0, SpecMaxAttempts) THEN "running"
                           ELSE "RuntimeError"]
    /\ attempt' = 0
    /\ calls' = 0
    /\ log' = <<>>
    /\ failed_specs' = IF Strip(request) # <<>> /\ ~LoopContinues(0, SpecMaxAttempts)
                       THEN SaveFailedSpec(0) ELSE failed_specs
    /\ UNCHANGED <<request, spec, step_graph, contract_raw, step_graph_raw,
                   logic, implementation, arg, ret, agentVars, libVars>>

GenerateSpec ==
    /\ DirectCall
    /\ step_graph = None
    /\ EnterGenerateSpec
    /\ in_all' = in_all

\* generate_all up to the first oracle call of its first stage
GenerateAll ==
    /\ DirectCall
    /\ spec = None /\ step_graph = None /\ logic = <<>> /\ implementation = <<>>
    /\ EnterGenerateSpec
    /\ in_all' = AllAfter("running", run')

\* one iteration of generate_spec's loop, and the exit after the last one
SpecAttempt ==
    /\ run = [op |-> "generate_spec", outcome |-> "running"]
    /\ \E r \in SpecResponses :
         \E res \in {SpecAttemptResult(r)} :
             /\ attempt' = attempt + 1
             /\ calls' = calls + 1
             /\ contract_raw' = calls + 1
             /\ log' = Append(log, Logged(res.class, ContainsJsonObject(r.toks), SpecResponseValid(r), res.warned))
             /\ spec' = IF res.assigned # None THEN res.assigned ELSE spec
             /\ run' = [run EXCEPT !.outcome =
                          IF res.class = "ok" THEN "returned"
                          ELSE IF LoopContinues(attempt + 1, SpecMaxAttempts) THEN "running"
                          ELSE "RuntimeError"]
             /\ failed_specs' = IF res.class # "ok" /\ ~LoopContinues(attempt + 1, SpecMaxAttempts)
                                THEN SaveFailedSpec(calls + 1) ELSE failed_specs
             /\ in_all' = AllAfter(in_all, run')
    /\ UNCHANGED <<request, step_graph, step_graph_raw, logic, implementation, arg, ret, agentVars, libVars>>

\* generate_step_graph up to its first oracle call
GenerateStepGraph ==
    /\ DirectCall \/ AllReaches("generate_spec")
    /\ step_graph = None
    /\ run' = [op |-> "generate_step_graph",
               outcome |-> IF spec = None THEN "ValueError"
                           ELSE IF LoopContinues(0, StepGraphMaxAttempts) THEN "running"
                           ELSE "RuntimeError"]
    /\ attempt' = 0
    /\ calls' = 0
    /\ log' = <<>>
    /\ in_all' = AllAfter(in_all, run')
    /\ UNCHANGED <<request, spec, step_graph, contract_raw, step_graph_raw, failed_specs,
                   logic, implementation, arg, ret, agentVars, libVars>>

\* one iteration of generate_step_graph's loop, and the exit after the last one
StepGraphAttempt ==
    /\ run = [op |-> "generate_step_graph", outcome |-> "running"]
    /\ \E r \in GraphResponses :
         \E res \in {StepGraphAttemptResult(r, spec[1])} :
             /\ attempt' = attempt + 1
             /\ calls' = calls + 1
             /\ step_graph_raw' = calls + 1
             /\ log' = Append(log, Logged(res.class, ContainsJsonObject(r.toks),
                                          StepGraphResponseValid(r, spec[1]), 0))
             /\ step_graph' = IF res.assigned # None THEN res.assigned ELSE step_graph
             /\ run' = [run EXCEPT !.outcome =
                          IF res.class = "ok" THEN "returned"
                          ELSE IF LoopContinues(attempt + 1, StepGraphMaxAttempts) THEN "running"
                          ELSE "RuntimeError"]
             /\ in_all' = AllAfter(in_all, run')
    /\ UNCHANGED <<request, spec, contract_raw, failed_specs, logic, implementation, arg, ret, agentVars, libVars>>

\* self.llm.call raises: the call is outside every try block of both loops
OracleRaises ==
    /\ run.outcome = "running"
    /\ attempt' = attempt + 1
    /\ calls' = calls + 1
    /\ log' = Append(log, Logged("oracle_error", FALSE, FALSE, 0))
    /\ run' = [run EXCEPT !.outcome = "OracleError"]
    /\ in_all' = AllAfter(in_all, run')
    /\ UNCHANGED <<request, spec, step_graph, contract_raw, step_graph_raw, failed_specs,
                   logic, implementation, arg, ret, agentVars, libVars>>

\* "[s.id for s in self.step_graph.steps]"
IdsOfSteps(g) == [i \in DOMAIN g.steps |-> g.steps[i].id]

\* "order = self.step_graph.order or [s.id for s in self.step_graph.steps]"
AnchorOrder(g) == IF g.order # <<>> THEN g.order ELSE IdsOfSteps(g)

\* the lines one iteration of "for sid in order" appends, by their step id
AnchorBlock(sid) == <<"anchor", sid>>

\* the skeleton: the header lines, then one anchor block per entry of order
LogicLines(mf, g) ==
    << <<"def", mf.name>> >> \o [i \in DOMAIN AnchorOrder(g) |-> AnchorBlock(AnchorOrder(g)[i])]

\* "self.spec and self.step_graph"
StagesStored(s, g) == s # None /\ g # None

\* generate_logic_from_step_graph on the stored specification s and step graph g
\* (both Optional): the exception it raises, or the value it assigns to self.logic
LogicFromStepGraph(s, g) ==
    IF ~StagesStored(s, g) THEN [raised |-> "ValueError", assigned |-> None]
    ELSE IF s[1].main_function = None THEN [raised |-> "ValueError", assigned |-> None]
    ELSE IF \E i \in DOMAIN AnchorOrder(g[1]) :
                AnchorOrder(g[1])[i] \notin {g[1].steps[k].id : k \in DOMAIN g[1].steps}
    THEN [raised |-> "KeyError", assigned |-> None]
    ELSE [raised |-> "none", assigned |-> Some(LogicLines(s[1].main_function[1], g[1]))]

\* generate_logic_from_step_graph: no oracle call
GenerateLogicFromStepGraph ==
    /\ DirectCall \/ AllReaches("generate_step_graph")
    /\ \E res \in {LogicFromStepGraph(spec, step_graph)} :
         /\ logic' = IF res.assigned # None THEN res.assigned[1] ELSE logic
         /\ run' = [op |-> "generate_logic_from_step_graph",
                    outcome |-> IF res.raised = "none" THEN "returned" ELSE res.raised]
    /\ attempt' = 0
    /\ calls' = 0
    /\ log' = <<>>
    /\ in_all' = AllAfter(in_all, run')
    /\ UNCHANGED <<request, spec, step_graph, contract_raw, step_graph_raw, failed_specs,
                   implementation, arg, ret, agentVars, libVars>>

\* the texts the oracle answers the implementation prompt with
ImplementationTexts == {<<>>, <<"def demo_func">>}

\* a guard that never fires
LogicMissingNever(l) == FALSE

\* "if not self.logic"
LogicMissing(l) == l = <<>>

\* generate_implementation: the guard, then one oracle call whose exception is
\* logged and raised again
GenerateImplementation ==
    /\ DirectCall \/ AllReaches("generate_logic_from_step_graph")
    /\ implementation = <<>>
    /\ attempt' = 0
    /\ log' = <<>>
    /\ \/ /\ LogicMissing(logic)
          /\ run' = [op |-> "generate_implementation", outcome |-> "ValueError"]
          /\ calls' = 0
          /\ implementation' = implementation
       \/ /\ ~LogicMissing(logic)
          /\ calls' = 1
          /\ \/ \E content \in ImplementationTexts :
                   /\ implementation' = content
                   /\ run' = [op |-> "generate_implementation", outcome |-> "returned"]
             \/ /\ implementation' = implementation
                /\ run' = [op |-> "generate_implementation", outcome |-> "OracleError"]
    /\ in_all' = AllAfter(in_all, run')
    /\ UNCHANGED <<request, spec, step_graph, contract_raw, step_graph_raw, failed_specs,
                   logic, arg, ret, agentVars, libVars>>

\* reset
Reset ==
    /\ Idle
    /\ in_all # "running"
    /\ run.op # "reset"
    /\ logic' = <<>>
    /\ implementation' = <<>>
    /\ in_all' = "off"
    /\ spec' = None
    /\ step_graph' = None
    /\ contract_raw' = 0
    /\ step_graph_raw' = 0
    /\ run' = [op |-> "reset", outcome |-> "returned"]
    /\ attempt' = 0
    /\ calls' = 0
    /\ log' = <<>>
    /\ UNCHANGED <<request, failed_specs, arg, ret, agentVars, libVars>>

Next ==
    \/ GenerateSpec
    \/ SpecAttempt
    \/ GenerateStepGraph
    \/ StepGraphAttempt
    \/ OracleRaises
    \/ GenerateLogicFromStepGraph
    \/ GenerateImplementation
    \/ GenerateAll
    \/ Reset

Spec == Init /\ [][Next]_vars

(***************************************************************************)
(* Properties of the generation-with-repair loops (specification Spec)     *)
(***************************************************************************)
InGeneration == run.op \in {"generate_spec", "generate_step_graph"}

\* the loop was entered and every llm.call so far returned a text
LoopRun == InGeneration /\ run.outcome \in {"running", "returned", "RuntimeError"}

\* the retry budget the claims state for each method
ClaimedBudget == IF run.op = "generate_spec" THEN 4 ELSE 3

\* C1: when every response is a text holding no JSON object, generate_spec
\* makes exactly 4 oracle calls and generate_step_graph exactly 3; the method
\* then ends with RuntimeError, never returns, and never calls beyond that
Thm_C1_UnparseableExhaustsBudget ==
    (LoopRun /\ \A i \in DOMAIN log : ~log[i].has_json) =>
        /\ calls = Len(log)
        /\ run.outcome # "returned"
        /\ (run.outcome = "running" => calls < ClaimedBudget)
        /\ (run.outcome = "RuntimeError" => calls = ClaimedBudget)

Witness_C1 ==
    /\ run = [op |-> "generate_spec", outcome |-> "RuntimeError"]
    /\ calls = 4
    /\ \A i \in DOMAIN log : ~log[i].has_json

\* C2: every failed attempt, of whatever kind, takes one unit of one shared
\* budget and the first response that passes all checks ends the method: the
\* number of oracle calls is the index of the first valid response, or the
\* budget when there is none within the budget
Thm_C2_SharedBudgetFirstValid ==
    LoopRun =>
        LET valid == {i \in DOMAIN log : log[i].valid}
        IN  /\ calls = Len(log)
            /\ attempt = Len(log)
            /\ calls <= ClaimedBudget
            /\ (run.outcome = "returned" => valid = {calls})
            /\ (run.outcome = "RuntimeError" => valid = {} /\ calls = ClaimedBudget)
            /\ (run.outcome = "running" => valid = {} /\ calls < ClaimedBudget)

Witness_C2 ==
    /\ run = [op |-> "generate_spec", outcome |-> "RuntimeError"]
    /\ [i \in DOMAIN log |-> log[i].class] = <<"parse", "parse", "schema", "semantic">>

\* C3: a stored artifact passed semantic validation: once generate_spec or
\* generate_step_graph has returned or raised, self.spec is accepted by
\* SpecValidator and self.step_graph by StepGraphValidator
Cex_C3_StoredArtifactValidated ==
    (InGeneration /\ run.outcome # "running") =>
        /\ (spec # None => SpecValidate(spec[1]).raised = "none")
        /\ (step_graph # None =>
              StepGraphValidate(step_graph[1], PredIds(spec[1].pre), PredIds(spec[1].post),
                                PredIds(spec[1].invariants)).raised = "none")

IsPermutationOf(order, ids) ==
    /\ ToSet(order) = ids
    /\ \A i, j \in DOMAIN order : order[i] = order[j] => i = j

\* C4: the order of every stored step graph lists each step id exactly once
Cex_C4_StoredOrderIsPermutation ==
    step_graph # None =>
        /\ IsPermutationOf(step_graph[1].order, PredIds(step_graph[1].steps))
        /\ Len(step_graph[1].order) = Len(step_graph[1].steps)

Successors(S, E) == {e[2] : e \in {x \in E : x[1] \in S}}

RECURSIVE ReachableWithin(_, _, _)
ReachableWithin(S, E, k) ==
    IF k = 0 THEN {} ELSE Successors(S, E) \cup ReachableWithin(Successors(S, E), E, k - 1)

Acyclic(E) ==
    LET nodes == {e[1] : e \in E} \cup {e[2] : e \in E}
    IN  \A n \in nodes : n \notin ReachableWithin({n}, E, Cardinality(nodes))

Linearizes(order, E) ==
    \A e \in E : \E i, j \in DOMAIN order : i < j /\ order[i] = e[1] /\ order[j] = e[2]

\* C6: every stored step graph is a DAG whose order puts the parent of every
\* edge before the child
Cex_C6_StoredGraphIsLinearizedDag ==
    step_graph # None =>
        /\ Acyclic(ToSet(step_graph[1].edges))
        /\ Linearizes(step_graph[1].order, ToSet(step_graph[1].edges))

(***************************************************************************)
(* Properties of StepGraphValidator.validate (specification SpecSGV)       *)
(***************************************************************************)
\* the graph is of the declared type: edges: List[Tuple[str, str]]
WellTyped(g) == \A i \in DOMAIN g.edges : Len(g.edges[i]) = 2

\* every entry of refs outside ids is named, with the step, in the message
UnknownRefsNamed(r, step, refs, ids, what) ==
    \A j \in DOMAIN refs :
        refs[j] \notin ids =>
            /\ r.raised = "StepGraphValidationError"
            /\ <<"Step", step.id, what, refs[j]>> \in ToSet(r.issues)

\* the graphs the converse half of C5 speaks of
WellFormedGraph(g, pre_ids, post_ids, invariant_ids) ==
    LET ids == {g.steps[i].id : i \in DOMAIN g.steps}
    IN  /\ \A i \in DOMAIN g.steps :
              /\ g.steps[i].id # ""
              /\ g.steps[i].intent # ""
              /\ \A j \in DOMAIN g.steps : g.steps[i].id = g.steps[j].id => i = j
              /\ ToSet(g.steps[i].pre_refs) \subseteq pre_ids
              /\ ToSet(g.steps[i].post_refs) \subseteq post_ids
              /\ ToSet(g.steps[i].invariant_refs) \subseteq invariant_ids
        /\ \A i \in DOMAIN g.edges : g.edges[i][1] \in ids /\ g.edges[i][2] \in ids
        /\ (g.order = <<>> \/ IsPermutationOf(g.order, ids))

\* C5: validate raises, naming the step and the id, whenever a pre_refs,
\* post_refs or invariant_refs entry is absent from the id set of its own
\* kind; and it returns for every graph with non-empty unique step ids,
\* non-empty intents, known references, edges between steps and an order that
\* is empty or lists every step id once
Thm_C5_ReferentialClosure ==
    (ret # None /\ WellTyped(arg.graph)) =>
        LET r == ret[1]
            g == arg.graph
        IN  /\ \A i \in DOMAIN g.steps :
                  /\ UnknownRefsNamed(r, g.steps[i], g.steps[i].pre_refs, arg.pre_ids, "unknown pre_ref")
                  /\ UnknownRefsNamed(r, g.steps[i], g.steps[i].post_refs, arg.post_ids, "unknown post_ref")
                  /\ UnknownRefsNamed(r, g.steps[i], g.steps[i].invariant_refs, arg.invariant_ids,
                                      "unknown invariant_ref")
            /\ (WellFormedGraph(g, arg.pre_ids, arg.post_ids, arg.invariant_ids) => r.raised = "none")

Witness_C5 ==
    /\ ret # None
    /\ Len(arg.graph.steps) = 1
    /\ arg.graph.steps[1].pre_refs = <<"Q1">>
    /\ "Q1" \in arg.post_ids
    /\ ret[1].raised = "StepGraphValidationError"
    /\ ret[1].issues = << <<"Step", arg.graph.steps[1].id, "unknown pre_ref", "Q1">> >>

(***************************************************************************)
(* Properties of SpecValidator.validate (specification SpecSV)             *)
(***************************************************************************)
RECURSIVE SumLen(_)
SumLen(ss) == IF ss = <<>> THEN 0 ELSE Len(Head(ss)) + SumLen(Tail(ss))

Raised(r) == r.raised = "SpecValidationError"

\* the message has a line with this severity, code and location
HasLine(r, code, location) ==
    \E n \in DOMAIN r.message :
        /\ r.message[n][1] = "ERROR"
        /\ r.message[n][2] = code
        /\ r.message[n][3] = location

CountLines(r, code) == Cardinality({n \in DOMAIN r.message : r.message[n][2] = code})

\* C7: validate raises exactly when some check found an ERROR; the message
\* has one line for every ERROR of every check; without errors it returns an
\* empty error list and every warning of every check
Thm_C7_RaisesIffErrorsAllReported ==
    ret # None =>
        LET r == ret[1]
            checks == Checks(arg)
        IN  /\ Raised(r) <=> \E k \in DOMAIN checks : checks[k].e # <<>>
            /\ Raised(r) =>
                  /\ \A k \in DOMAIN checks : \A i \in DOMAIN checks[k].e :
                        /\ checks[k].e[i].severity = "ERROR"
                        /\ Format(checks[k].e[i]) \in ToSet(r.message)
                  /\ Len(r.message) = SumLen([k \in DOMAIN checks |-> checks[k].e])
            /\ ~Raised(r) =>
                  /\ r.raised = "none"
                  /\ r.errors = <<>>
                  /\ \A k \in DOMAIN checks : \A i \in DOMAIN checks[k].w :
                        /\ checks[k].w[i].severity = "WARNING"
                        /\ checks[k].w[i] \in ToSet(r.warnings)
                  /\ Len(r.warnings) = SumLen([k \in DOMAIN checks |-> checks[k].w])

Witness_C7 ==
    /\ ret # None
    /\ Raised(ret[1])
    /\ HasLine(ret[1], "STRUCTURE_ERROR", <<"spec_version">>)
    /\ HasLine(ret[1], "PRED_UNSAFE_NODE", <<"pre", "P1", "expr">>)
    /\ HasLine(ret[1], "EXAMPLE_INVALID", <<"examples", "negative", "E2">>)
    /\ HasLine(ret[1], "COVERAGE_INSUFFICIENT", <<"post">>)

\* C8: two predicates of pre + post + invariants with the same non-empty id
\* make validate raise with an ID_CONFLICT line located at that id
Thm_C8_PooledIdConflict ==
    ret # None =>
        LET pooled == arg.pre \o arg.post \o arg.invariants
        IN  \A i, j \in DOMAIN pooled :
                (i < j /\ pooled[i].id = pooled[j].id /\ pooled[i].id # "") =>
                    /\ Raised(ret[1])
                    /\ HasLine(ret[1], "ID_CONFLICT", <<"predicates", pooled[i].id>>)

Witness_C8 ==
    /\ ret # None
    /\ Len(arg.pre) = 1 /\ Len(arg.post) = 1 /\ arg.invariants = <<>>
    /\ arg.pre[1].id = "P1" /\ arg.post[1].id = "P1"
    /\ HasLine(ret[1], "ID_CONFLICT", <<"predicates", "P1">>)

\* the checks other than the coverage block found no error
OnlyCoverageMatters(s) == \A k \in 1..(Len(Checks(s)) - 1) : Checks(s)[k].e = <<>>

\* C9: an empty pre or an empty post always fails validation with a
\* COVERAGE_INSUFFICIENT error, whatever else the specification holds; an
\* empty positive or negative example list by itself is a warning only
Thm_C9_CoverageFloor ==
    ret # None =>
        LET r == ret[1]
        IN  /\ arg.pre = <<>> => Raised(r) /\ HasLine(r, "COVERAGE_INSUFFICIENT", <<"pre">>)
            /\ arg.post = <<>> => Raised(r) /\ HasLine(r, "COVERAGE_INSUFFICIENT", <<"post">>)
            /\ ~HasLine(r, "COVERAGE_INSUFFICIENT", <<"examples", "positive">>)
            /\ ~HasLine(r, "COVERAGE_INSUFFICIENT", <<"examples", "negative">>)
            /\ (OnlyCoverageMatters(arg) /\ arg.pre # <<>> /\ arg.post # <<>>) =>
                  /\ ~Raised(r)
                  /\ (arg.positive = <<>> =>
                        Warn("COVERAGE_INSUFFICIENT", <<"examples", "positive">>,
                             <<"No positive examples provided">>) \in ToSet(r.warnings))
                  /\ (arg.negative = <<>> =>
                        Warn("COVERAGE_INSUFFICIENT", <<"examples", "negative">>,
                             <<"No negative examples provided">>) \in ToSet(r.warnings))

Witness_C9 ==
    /\ ret # None
    /\ arg.pre = <<>>
    /\ arg.spec_version = 1
    /\ arg.forbidden_apis # <<>>
    /\ HasLine(ret[1], "COVERAGE_INSUFFICIENT", <<"pre">>)
    /\ HasLine(ret[1], "STRUCTURE_ERROR", <<"spec_version">>)

ExampleLocation(group, ex) == <<"examples", group, IF ex.id = "" THEN "<?>" ELSE ex.id>>

\* raises is set: neither null nor the empty string
HasRaises(ex) == ex.raises \notin {None, <<"">>}

HasErrorLine(r, code, location, message) == <<"ERROR", code, location, message>> \in ToSet(r.message)

\* the number of polarity and serialisation violations among the examples
ExampleViolations(s) ==
      Cardinality({i \in DOMAIN s.negative : s.negative[i].output # None})
    + Cardinality({i \in DOMAIN s.negative : ~HasRaises(s.negative[i])})
    + Cardinality({i \in DOMAIN s.positive : HasRaises(s.positive[i])})
    + Cardinality({i \in DOMAIN s.positive : ~s.positive[i].inputs.json_safe})
    + Cardinality({i \in DOMAIN s.negative : ~s.negative[i].inputs.json_safe})

WhitelistedBuiltinCall(call) ==
    call.kids[1].kind = "Name" /\ call.kids[1].name \in SAFE_CALL_WHITELIST

\* the expression holds import (as the token "import " or __import__),
\* eval( or exec(, or a call to something else than a whitelisted built-in
UnsafeExpr(expr) ==
    \/ Occurs(<<"import", " ">>, expr.src)
    \/ Occurs(<<"__", "import", "__">>, expr.src)
    \/ Occurs(<<"eval", "(">>, expr.src)
    \/ Occurs(<<"exec", "(">>, expr.src)
    \/ /\ expr.tree # None
       /\ \E n \in ToSet(Walk(<<expr.tree[1]>>)) : n.kind = "Call" /\ ~WhitelistedBuiltinCall(n)

\* the raised message has an ERROR PRED_UNSAFE_NODE or PRED_EXPR_INVALID at the location
RejectedAt(r, location) ==
    /\ Raised(r)
    /\ \E n \in DOMAIN r.message :
          /\ r.message[n][1] = "ERROR"
          /\ r.message[n][2] \in {"PRED_UNSAFE_NODE", "PRED_EXPR_INVALID"}
          /\ r.message[n][3] = location

PredicatesRejected(r, preds, group) ==
    \A i \in DOMAIN preds :
        UnsafeExpr(preds[i].expr) => RejectedAt(r, <<group, preds[i].id, "expr">>)

\* C11: every predicate, exception predicate and oracle expression that holds
\* import, eval( or exec(, or a call to a function outside the whitelist, is
\* reported as ERROR PRED_UNSAFE_NODE or PRED_EXPR_INVALID and the
\* specification is rejected
Cex_C11_UnsafeExpressionsRejected ==
    ret # None =>
        LET r == ret[1]
        IN  /\ PredicatesRejected(r, arg.pre, "pre")
            /\ PredicatesRejected(r, arg.post, "post")
            /\ PredicatesRejected(r, arg.invariants, "invariants")
            /\ \A i \in DOMAIN arg.exceptions :
                  UnsafeExpr(arg.exceptions[i].predicate) =>
                      RejectedAt(r, <<"types", "exceptions", IdxStr(i), "predicate">>)
            /\ \A i \in DOMAIN arg.metamorphic_relations :
                  UnsafeExpr(arg.metamorphic_relations[i].oracle_expr) =>
                      \E n \in DOMAIN r.message :
                          /\ r.message[n][2] \in {"PRED_UNSAFE_NODE", "PRED_EXPR_INVALID"}
                          /\ r.message[n][3][1] = "metamorphic_relations"
                          /\ r.message[n][3][2] = IdxStr(i)

\* ---- exhaustion and oracle failure ---------------------------------------
\* C18: when generate_spec or generate_step_graph ends in the terminal
\* RuntimeError, a file holding that method's last raw response and the
\* failure reason has been written
Cex_C18_ExhaustionPersistsLastRaw ==
    (LoopRun /\ run.outcome = "RuntimeError") =>
        \E f \in failed_specs :
            /\ f.method = run.op
            /\ f.raw = (IF run.op = "generate_spec" THEN contract_raw ELSE step_graph_raw)
            /\ f.errors # ""

\* C19: an oracle call that raises while attempts remain is one failed
\* attempt, after which the method is still running its loop
Cex_C19_OracleFailureIsAnAttempt ==
    (InGeneration /\ log # <<>> /\ log[Len(log)].class = "oracle_error" /\ Len(log) < ClaimedBudget) =>
        /\ attempt = Len(log)
        /\ run.outcome = "running"

(***************************************************************************)
(* The code agent (agent/code_agent.py), its tools (tools/*.py) and the    *)
(* executor of candidate code (core/code_executor.py).                     *)
(*                                                                         *)
(* Program text is a sequence of lexical units, cut so that every          *)
(* occurrence of a substring the executor searches for is a run of whole   *)
(* units; "a in text" is Occurs(a, text).                                  *)
(***************************************************************************)
MaxTests == 2
MaxRefineAttempts == 3
MaxElapsed == 50

\* ValidateTool.__init__: CodeExecutor(timeout=30.0, enable_security=True)
ValidateToolTimeout == 30

DANGEROUS_BUILTINS ==
    {<<"exec">>, <<"eval">>, <<"compile">>, <<"__", "import", "__">>, <<"open">>, <<"file">>,
     <<"input">>, <<"raw_input">>, <<"reload">>, <<"vars">>, <<"locals">>, <<"globals">>,
     <<"dir">>, <<"getattr">>, <<"setattr">>, <<"delattr">>, <<"hasattr">>}

DANGEROUS_MODULES ==
    {"os", "sys", "subprocess", "socket", "urllib", "requests",
     "shutil", "tempfile", "pickle", "marshal", "imp", "importlib"}

dangerous_patterns ==
    {<<"__">>, <<"exec", "(">>, <<"eval", "(">>, <<"compile", "(">>, <<"open", "(">>,
     <<"file", "(">>, <<"input", "(">>, <<"raw_input", "(">>}

\* str.lower(), on the units that have upper-case letters
LowerUnit(u) ==
    CASE u = "Exception" -> "exception"
      [] u = "RESULT:" -> "result:"
      [] u = "ERROR:" -> "error:"
      [] u = "ERROR_TYPE:" -> "error_type:"
      [] u = "True" -> "true"
      [] OTHER -> u

Lower(text) == [i \in 1..Len(text) |-> LowerUnit(text[i])]

\* CodeExecutor._security_check: None when nothing is found, otherwise the kind of
\* the finding (which member of a set is reported first is left open by the code)
SecurityCheck(code) ==
    IF \E d \in DANGEROUS_BUILTINS : Occurs(d, code)
    THEN Some("dangerous function")
    ELSE IF \E d \in DANGEROUS_MODULES :
                Occurs(<<"import", " ", d>>, code) \/ Occurs(<<"from", " ", d>>, code)
    THEN Some("dangerous module")
    ELSE IF \E pat \in dangerous_patterns : Occurs(pat, Lower(code))
    THEN Some("dangerous pattern")
    ELSE None

(***************************************************************************)
(* Examples of a FunctionSpec and candidate implementations of f(nums).    *)
(***************************************************************************)
ToolExample(nums, expected_output) == [inputs |-> [nums |-> nums], expected_output |-> expected_output]

ExamplePair == ToolExample(<<1, 1>>, 2)        \* {inputs: {nums: [1, 1]}, expected_output: 2}
ExampleTriple == ToolExample(<<1, 1, 2>>, 2)   \* {inputs: {nums: [1, 1, 2]}, expected_output: 2}

AgentExamples == {ExamplePair, ExampleTriple}

ExampleLists ==
    UNION {[1..n -> AgentExamples] : n \in 1..MaxTests}

CodeLen == <<"def", " ", "f", "(", "nums", ")", ":", "return", " ", "len", "(", "nums", ")">>
CodeTwo == <<"def", " ", "f", "(", "nums", ")", ":", "return", " ", "2">>
CodeZero == <<"def", " ", "f", "(", "nums", ")", ":", "return", " ", "0">>
CodeIndex == <<"def", " ", "f", "(", "nums", ")", ":", "return", " ", "nums", "[", "7", "]">>
CodeVerbose ==
    <<"def", " ", "f", "(", "nums", ")", ":", "print", "(", "'n'", ")", ";",
      "return", " ", "len", "(", "nums", ")">>
CodeSpin == <<"def", " ", "f", "(", "nums", ")", ":", "while", " ", "True", ":", "pass">>
CodeSyntax == <<"def", " ", "f", "(", "nums", ")", "return">>
CodeOpen == <<"def", " ", "f", "(", "nums", ")", ":", "return", " ", "open", "(", "nums", ")">>
CodeEmpty == <<>>

Candidates ==
    {CodeLen, CodeTwo, CodeZero, CodeIndex, CodeVerbose, CodeSpin, CodeSyntax, CodeOpen, CodeEmpty}

\* repr() of an int and of a list of ints, as units
ReprInt(n) == ToString(n)

RECURSIVE ReprItems(_)
ReprItems(xs) ==
    IF xs = <<>> THEN <<>>
    ELSE IF Len(xs) = 1 THEN <<ReprInt(xs[1])>>
    ELSE <<ReprInt(xs[1]), ", ">> \o ReprItems(Tail(xs))

ReprList(xs) == <<"[">> \o ReprItems(xs) \o <<"]">>

\* eval() of the text printed after "RESULT:": the int it denotes, None when it denotes none
EvalLiteral(text) ==
    IF \E n \in 0..9 : text = ReprInt(n)
    THEN Some(CHOOSE n \in 0..9 : text = ReprInt(n))
    ELSE None

\* ", ".join(f"{k}={repr(v)}" for k, v in inputs.items())
ArgsStr(inputs) == <<"nums", "=">> \o ReprList(inputs.nums)

\* the test program _run_single_test builds around the candidate
TestCode(code, func_name, args_str) ==
    <<"\n">> \o code \o
    <<"\n", "try", ":", "result", " ", "=", " ", func_name, "(">> \o args_str \o
    <<")", "\n", "print", "(", "RESULT:", "repr", "(", "result", ")", ")", "\n",
      "except", " ", "Exception", " ", "as", " ", "e", ":", "\n",
      "print", "(", "ERROR:", "str", "(", "e", ")", ")", "\n",
      "print", "(", "ERROR_TYPE:", "type", "(", "e", ")", ".", "__", "name", "__", ")", "\n">>

(***************************************************************************)
(* What compile() and exec() do with a test program in the namespace of    *)
(* _create_safe_globals: the candidate is looked up among Candidates.      *)
(*   returns v      stdout is the candidate's own prints, then RESULT: v   *)
(*   raises         the candidate raised; the except clause of the test    *)
(*                  program then raises NameError, Exception being no safe *)
(*                  builtin, and exec() raises                             *)
(*   syntax         compile() raises SyntaxError                           *)
(*   diverges       exec() does not return                                 *)
(***************************************************************************)
Call(code, nums) ==
    CASE code = CodeLen -> [kind |-> "returns", value |-> Len(nums), prints |-> <<>>]
      [] code = CodeTwo -> [kind |-> "returns", value |-> 2, prints |-> <<>>]
      [] code = CodeZero -> [kind |-> "returns", value |-> 0, prints |-> <<>>]
      [] code = CodeVerbose -> [kind |-> "returns", value |-> Len(nums), prints |-> <<"n">>]
      [] code = CodeSpin -> [kind |-> "diverges", value |-> 0, prints |-> <<>>]
      [] code = CodeSyntax -> [kind |-> "syntax", value |-> 0, prints |-> <<>>]
      [] OTHER -> [kind |-> "raises", value |-> 0, prints |-> <<>>]

\* the candidate and the argument list of a test program: the text up to the
\* line break that ends the candidate, and the text between "f(nums=" and ")"
CandidateOf(text) ==
    LET k == CHOOSE i \in 2..Len(text) :
                 text[i] = "\n" /\ \A j \in 2..(i - 1) : text[j] # "\n"
    IN  [code |-> SubSeq(text, 2, k - 1), call |-> k + 9]

ArgumentOf(text, from) ==
    LET m == CHOOSE i \in from..Len(text) :
                 text[i] = ")" /\ \A j \in from..(i - 1) : text[j] # ")"
    IN  SubSeq(text, from + 2, m - 1)

PyExec(text) ==
    LET prog == CandidateOf(text)
        argument == ArgumentOf(text, prog.call)
        given == {e \in AgentExamples : ReprList(e.inputs.nums) = argument}
    IN  IF given = {}
        THEN [kind |-> "raises", value |-> 0, prints |-> <<>>]
        ELSE Call(prog.code, (CHOOSE e \in given : TRUE).inputs.nums)

ExecutionResult(status, stdout, error) == [status |-> status, stdout |-> stdout, error |-> error]

\* CodeExecutor.run does not return on this text
RunDiverges(ex, text) ==
    /\ text # <<>>
    /\ ~(ex.enable_security /\ SecurityCheck(text) # None)
    /\ PyExec(text).kind = "diverges"

\* a run that executes the code first and applies the security check to it afterwards
ExecutorRunCheckAfter(ex, text) ==
    IF text = <<>>
    THEN [result |-> ExecutionResult("FAILURE", <<>>, Some("empty code")),
          counted |-> FALSE, executed |-> FALSE]
    ELSE LET r == PyExec(text)
         IN  IF ex.enable_security /\ SecurityCheck(text) # None
             THEN [result |-> ExecutionResult("SECURITY_ERROR", <<>>, SecurityCheck(text)),
                   counted |-> r.kind = "returns", executed |-> TRUE]
             ELSE IF r.kind = "returns"
             THEN [result |-> ExecutionResult("SUCCESS",
                                  r.prints \o <<"RESULT:", ReprInt(r.value)>>, None),
                   counted |-> TRUE, executed |-> TRUE]
             ELSE [result |-> ExecutionResult("FAILURE", r.prints, Some("traceback")),
                   counted |-> FALSE, executed |-> TRUE]

\* CodeExecutor.run, where it returns: its result, whether _execution_count
\* grew, and whether compile/exec was reached
ExecutorRun(ex, text) ==
    IF text = <<>>
    THEN [result |-> ExecutionResult("FAILURE", <<>>, Some("empty code")),
          counted |-> FALSE, executed |-> FALSE]
    ELSE IF ex.enable_security /\ SecurityCheck(text) # None
    THEN [result |-> ExecutionResult("SECURITY_ERROR", <<>>, SecurityCheck(text)),
          counted |-> FALSE, executed |-> FALSE]
    ELSE LET r == PyExec(text)
         IN  IF r.kind = "returns"
             THEN [result |-> ExecutionResult("SUCCESS",
                                  r.prints \o <<"RESULT:", ReprInt(r.value)>>, None),
                   counted |-> TRUE, executed |-> TRUE]
             ELSE [result |-> ExecutionResult("FAILURE", r.prints, Some("traceback")),
                   counted |-> FALSE, executed |-> TRUE]

(***************************************************************************)
(* tools/base.py and tools/validate_tool.py                                *)
(***************************************************************************)
ToolOutput(success, status, data) == [success |-> success, status |-> status, data |-> data]

success_result(data) == ToolOutput(TRUE, "SUCCESS", Some(data))
error_result == ToolOutput(FALSE, "FAILURE", None)
warning_result(data) == ToolOutput(TRUE, "WARNING", Some(data))

TestResult(test_name, passed, inputs, expected_output, actual_output, error) ==
    [test_name |-> test_name, passed |-> passed, input_values |-> inputs,
     expected_output |-> expected_output, actual_output |-> actual_output, error |-> error]

TestName(idx) == <<"Example_", idx>>

\* output.replace("RESULT:", "")
WithoutResultTag(output) == SelectSeq(output, LAMBDA u : u # "RESULT:")

\* ValidateTool._run_single_test, where the executor returns
RunSingleTest(ex, code, func_name, test_name, inputs, expected_output) ==
    LET exec_result == ExecutorRun(ex, TestCode(code, func_name, ArgsStr(inputs))).result
        output == exec_result.stdout
        actual_output_str == WithoutResultTag(output)
        actual_output ==
            IF Len(actual_output_str) = 1 THEN EvalLiteral(actual_output_str[1]) ELSE None
    IN  IF exec_result.status = "SUCCESS"
        THEN IF output # <<>> /\ output[1] = "RESULT:"
             THEN IF actual_output # None
                  THEN TestResult(test_name, actual_output[1] = expected_output, inputs,
                                  expected_output, actual_output,
                                  IF actual_output[1] = expected_output
                                  THEN None ELSE Some("output mismatch"))
                  ELSE TestResult(test_name, FALSE, inputs, expected_output, None,
                                  Some("unparseable output"))
             ELSE IF Occurs(<<"ERROR:">>, output)
             THEN TestResult(test_name, FALSE, inputs, expected_output, None,
                             Some("runtime exception"))
             ELSE TestResult(test_name, FALSE, inputs, expected_output, None,
                             Some("no function output"))
        ELSE TestResult(test_name, FALSE, inputs, expected_output, None,
                        IF exec_result.error # None THEN exec_result.error
                        ELSE Some("execution failed"))

ValidationResult(test_results) ==
    LET passed_count == Cardinality({i \in 1..Len(test_results) : test_results[i].passed})
        total_tests == Len(test_results)
    IN  [is_valid |-> passed_count = total_tests, total_tests |-> total_tests,
         passed_count |-> passed_count, test_results |-> test_results]

\* the examples on which the executor does not return, running code
Hanging(ex, code, examples) ==
    {i \in 1..Len(examples) : RunDiverges(ex, TestCode(code, "f", ArgsStr(examples[i].inputs)))}

RunTestsUntilFailure(ex, code, examples) ==
    LET all == [idx \in 1..Len(examples) |->
                   RunSingleTest(ex, code, "f", TestName(idx), examples[idx].inputs,
                                 examples[idx].expected_output)]
        failing == {i \in 1..Len(all) : ~all[i].passed}
    IN  IF failing = {} THEN all
        ELSE SubSeq(all, 1, CHOOSE i \in failing : \A j \in failing : i <= j)

\* the tests of one validation, in the order _execute_impl runs them
RunTests(ex, code, examples) ==
    [idx \in 1..Len(examples) |->
        RunSingleTest(ex, code, "f", TestName(idx), examples[idx].inputs,
                      examples[idx].expected_output)]

\* a validation that does not accept a specification without examples
ValidateExecuteImplNeedsExamples(ex, code, examples) ==
    IF examples = <<>>
    THEN warning_result([ValidationResult(<<>>) EXCEPT !.is_valid = FALSE])
    ELSE LET validation_result == ValidationResult(RunTests(ex, code, examples))
         IN  IF validation_result.is_valid
             THEN success_result(validation_result)
             ELSE warning_result(validation_result)

\* ValidateTool._execute_impl, where every executor call returns (the suggestions and
\* the line-effectiveness figures of the report are not modelled)
ValidateExecuteImpl(ex, code, examples) ==
    IF examples = <<>>
    THEN warning_result(ValidationResult(<<>>))
    ELSE LET validation_result == ValidationResult(RunTests(ex, code, examples))
         IN  IF validation_result.is_valid
             THEN success_result(validation_result)
             ELSE warning_result(validation_result)

\* _security_check finds something in the text
Flagged(text) == SecurityCheck(text) # None

\* CodeExecutor.run on the test program of each candidate and example, tabulated
\* once: whether it counted an execution, whether it reached compile/exec,
\* and whether _security_check flags the program
TestRuns ==
    [enable_security \in BOOLEAN, code \in Candidates \ {<<>>}, example \in AgentExamples |->
        [counted  |-> ExecutorRun([enable_security |-> enable_security],
                                  TestCode(code, "f", ArgsStr(example.inputs))).counted,
         executed |-> ExecutorRun([enable_security |-> enable_security],
                                  TestCode(code, "f", ArgsStr(example.inputs))).executed,
         flagged  |-> Flagged(TestCode(code, "f", ArgsStr(example.inputs)))]]

\* how many of these tests made CodeExecutor.run count an execution
CountedRuns(ex, code, examples, upto) ==
    Cardinality({i \in 1..upto : TestRuns[ex.enable_security, code, examples[i]].counted})

\* the test programs among the first upto that _security_check flags, and
\* those of them for which run reached compile/exec
FlaggedRuns(ex, code, examples, upto) ==
    {i \in 1..upto : TestRuns[ex.enable_security, code, examples[i]].flagged}

FlaggedExecuted(ex, code, examples, upto) ==
    {i \in 1..upto : /\ TestRuns[ex.enable_security, code, examples[i]].flagged
                     /\ TestRuns[ex.enable_security, code, examples[i]].executed}

\* the executor after run was called on the first upto test programs and returned
AfterRuns(ex, code, examples, upto) ==
    [ex EXCEPT !.execution_count = @ + CountedRuns(ex, code, examples, upto),
               !.runs = @ + upto,
               !.flagged = @ + Cardinality(FlaggedRuns(ex, code, examples, upto)),
               !.flagged_executed = @ + Cardinality(FlaggedExecuted(ex, code, examples, upto))]

\* Tool.execute around an _execute_impl that returns data, or raises (data = None)
ToolExecute(data) ==
    IF data = None THEN error_result ELSE success_result(data[1])

(***************************************************************************)
(* tools/implement_tool.py, tools/refine_tool.py                           *)
(*                                                                         *)
(* A tool call either returns a ToolOutput or raises.  ImplementTool and   *)
(* RefineTool override Tool.execute with a method of their own             *)
(* ("own_execute"); SpecTool and ValidateTool go through Tool.execute      *)
(* ("base_execute"), and so does any tool written to the Tool interface.   *)
(***************************************************************************)
Returned(output) == [raised |-> FALSE, output |-> output]
CallRaised == [raised |-> TRUE, output |-> error_result]

\* pydantic: a model is built only when every required field is given
ModelInit(required, given) == required \subseteq given

\* ToolOutput: success and status have no default
ToolOutputRequired == {"success", "status"}

\* ImplementTool.execute / RefineTool.execute on the response of the oracle
\* (None: generate_structured raised): both branches build the output model from
\* success, data and message only
OwnExecute(response) ==
    IF response # None /\ ModelInit(ToolOutputRequired, {"success", "data", "message"})
    THEN Returned(ToolOutput(TRUE, "SUCCESS", response))
    ELSE IF ModelInit(ToolOutputRequired, {"success", "data", "message"})
    THEN Returned(ToolOutput(FALSE, "FAILURE", None))
    ELSE CallRaised

BaseExecute(response) == Returned(ToolExecute(response))

ToolKinds == {"own_execute", "base_execute"}

ExecuteTool(kind, response) ==
    IF kind = "own_execute" THEN OwnExecute(response) ELSE BaseExecute(response)

(***************************************************************************)
(* agent/code_agent.py: CodeGenAgent.generate and _execute_workflow, one   *)
(* action per tool call; each action runs the workflow on to the next tool *)
(* call or to the result of generate.                                      *)
(***************************************************************************)
Result(success, code, validation, refine_attempts, error) ==
    [success |-> success, code |-> code, validation |-> validation,
     refine_attempts |-> refine_attempts, error |-> error]

\* generate returns what _execute_workflow returned
Return(a, how, result) == [a EXCEPT !.pc = "done", !.how = how, !.result = Some(result)]

\* generate: except Exception as e
Caught(a, error) == Return(a, "exception", Result(FALSE, None, None, None, Some(error)))

SuccessResultCountsRounds(a) ==
    Result(TRUE, a.current_code, a.validation, Some(a.attempt + 1), None)

\* the return inside the loop
SuccessResult(a) ==
    Result(TRUE, a.current_code, a.validation, Some(a.attempt), None)

\* the return after the loop; validation is a local the loop body binds
FailureResult(a) ==
    Result(FALSE, a.current_code, a.validation, Some(a.max_refine_attempts), None)

LoopExit(a, how) ==
    IF a.validation = None
    THEN Caught(a, "UnboundLocalError")
    ELSE Return(a, how, FailureResult(a))

\* for attempt in range(self.max_refine_attempts)
LoopTop(a) ==
    IF a.attempt < a.max_refine_attempts
    THEN [a EXCEPT !.pc = "validate"]
    ELSE LoopExit(a, "exhausted")

AgentConstructed(max_refine_attempts, tools) ==
    [pc |-> "idle", how |-> "", max_refine_attempts |-> max_refine_attempts, tools |-> tools,
     spec |-> None, implementation |-> None, current_code |-> None, validation |-> None,
     attempt |-> 0, validate_calls |-> 0, refine_calls |-> 0, first_valid |-> 0,
     best_passed |-> 0, oracle_failed |-> FALSE, result |-> None]

ExecutorConstructed(timeout, enable_security) ==
    [timeout |-> timeout, enable_security |-> enable_security, execution_count |-> 0,
     running |-> FALSE, elapsed |-> 0,
     \* ghosts: calls of run, those on a text the check flags, those of them that reached exec
     runs |-> 0, flagged |-> 0, flagged_executed |-> 0]

InitAgent ==
    /\ \E m \in 0..MaxRefineAttempts, tools \in [{"implement_function", "refine_code"} -> ToolKinds] :
           agent = AgentConstructed(m, tools)
    /\ \E enable_security \in BOOLEAN :
           executor = ExecutorConstructed(ValidateToolTimeout, enable_security)
    /\ request = ""
    /\ GeneratorConstructed
    /\ NoLibrary
    /\ arg = None
    /\ ret = None

\* generate(request) up to the result of the spec tool; response is what the
\* oracle gave it (None: it raised)
AgentGenerateSpec(req, response) ==
    /\ agent.pc = "idle"
    /\ agent' =
           IF req = ""
           THEN Caught(agent, "ValidationError")
           ELSE LET spec_result == BaseExecute(response).output
                IN  IF ~spec_result.success
                    THEN Caught(agent, "RuntimeError")
                    ELSE [agent EXCEPT !.pc = "implement", !.spec = spec_result.data]
    /\ UNCHANGED <<executor, arg, ret, genVars, libVars>>

\* the implement tool call and the entry of the loop
AgentImplement(response) ==
    /\ agent.pc = "implement"
    /\ LET call == ExecuteTool(agent.tools["implement_function"], response)
       IN  agent' =
               IF call.raised
               THEN Caught(agent, "ValidationError")
               ELSE IF ~call.output.success
               THEN Caught(agent, "RuntimeError")
               ELSE LoopTop([agent EXCEPT !.implementation = call.output.data,
                                          !.current_code = call.output.data,
                                          !.attempt = 0])
    /\ UNCHANGED <<executor, arg, ret, genVars, libVars>>

Max(x, y) == IF x >= y THEN x ELSE y

\* what a validation that returns leaves in the locals of the loop
Validated(a, validation) ==
    [a EXCEPT !.validation = Some(validation),
              !.validate_calls = @ + 1,
              !.first_valid = IF @ = 0 /\ validation.is_valid THEN a.validate_calls + 1 ELSE @,
              !.best_passed = Max(@, validation.passed_count)]

\* the loop body after a validation that returned
AfterValidation(a) ==
    IF a.validation[1].is_valid
    THEN Return(a, "valid", SuccessResult(a))
    ELSE IF a.attempt < a.max_refine_attempts - 1
    THEN [a EXCEPT !.pc = "refine"]
    ELSE LoopTop([a EXCEPT !.attempt = @ + 1])

\* one validation that returns, and what the loop does with its report
AgentValidate ==
    /\ agent.pc = "validate"
    /\ IF agent.current_code[1] = <<>>
       THEN /\ agent' = Caught(agent, "ValidationError")
            /\ UNCHANGED executor
       ELSE /\ Hanging(executor, agent.current_code[1], agent.spec[1]) = {}
            /\ \E validate_result \in
                       {ValidateExecuteImpl(executor, agent.current_code[1], agent.spec[1])} :
                   \E a \in {Validated(agent, validate_result.data[1])} :
                       agent' = AfterValidation(a)
            /\ executor' = AfterRuns(executor, agent.current_code[1], agent.spec[1],
                                     Len(agent.spec[1]))
    /\ UNCHANGED <<arg, ret, genVars, libVars>>

Min(S) == CHOOSE x \in S : \A y \in S : x <= y

\* one validation whose executor call does not return
AgentValidateHangs ==
    /\ agent.pc = "validate"
    /\ agent.current_code[1] # <<>>
    /\ LET code == agent.current_code[1]
           examples == agent.spec[1]
           hanging == Hanging(executor, code, examples)
       IN  /\ hanging # {}
           /\ agent' = [agent EXCEPT !.pc = "executing"]
           /\ \E hung \in {TestRuns[executor.enable_security, code, examples[Min(hanging)]]} :
                  executor' =
                      [AfterRuns(executor, code, examples, Min(hanging) - 1) EXCEPT
                          !.running = TRUE,
                          !.elapsed = 0,
                          !.runs = @ + 1,
                          !.flagged = @ + (IF hung.flagged THEN 1 ELSE 0),
                          !.flagged_executed = @ + (IF hung.flagged THEN 1 ELSE 0)]
    /\ UNCHANGED <<arg, ret, genVars, libVars>>

\* time passes while exec() runs the candidate; run has no clock of its own
ExecutorTick ==
    /\ executor.running
    /\ executor.elapsed < MaxElapsed
    /\ executor' = [executor EXCEPT !.elapsed = @ + 10]
    /\ UNCHANGED <<agent, arg, ret, genVars, libVars>>

\* the refine tool call, and the loop up to the next validation or to the result
AgentRefine(response) ==
    /\ agent.pc = "refine"
    /\ LET call == ExecuteTool(agent.tools["refine_code"], response)
           a == [agent EXCEPT !.refine_calls = @ + 1,
                              !.oracle_failed = (response = None)]
       IN  agent' =
               IF call.raised
               THEN Caught(a, "ValidationError")
               ELSE IF ~call.output.success
               THEN LoopExit(a, "refine_failed")
               ELSE LoopTop([a EXCEPT !.current_code = call.output.data,
                                      !.attempt = @ + 1])
    /\ UNCHANGED <<executor, arg, ret, genVars, libVars>>

\* what llm.generate_structured gives the spec tool (None: it raised), by its
\* examples.  FunctionSpec declares min_items=1 for examples, which binds
\* objects built through validation only: the oracle's object is passed on as
\* it is, and ValidateTool has a branch for a specification without examples
OracleSpecs == {None} \cup {Some(exs) : exs \in ExampleLists \cup {<<>>}}
OracleCode == {None} \cup {Some(c) : c \in Candidates}

NextAgent ==
    \/ \E req \in {"", "count"}, response \in OracleSpecs : AgentGenerateSpec(req, response)
    \/ \E response \in OracleCode : AgentImplement(response)
    \/ AgentValidate
    \/ AgentValidateHangs
    \/ ExecutorTick
    \/ \E response \in OracleCode : AgentRefine(response)

SpecAgent == InitAgent /\ [][NextAgent]_vars

(***************************************************************************)
(* Claims about the code agent, its validate tool and its executor         *)
(***************************************************************************)
\* the report in agent.validation is the report of agent.current_code
ReportOfCurrentCode == agent.pc \in {"refine", "done"} /\ agent.validation # None

\* what the target function of the candidate does on the inputs of example i
Outcome(i) == Call(agent.current_code[1], agent.spec[1][i].inputs.nums)

ReturnsExpected(i) ==
    Outcome(i).kind = "returns" /\ Outcome(i).value = agent.spec[1][i].expected_output

\* C12: with the executor ValidateTool builds (security checks on) and the test
\* program it generates, a test whose candidate returns the expected output of
\* its example is recorded with passed = true and that value as actual_output,
\* and the report is valid when this is so for every example.
Cex_C12_ReturningExpectedPasses ==
    (executor.enable_security /\ ReportOfCurrentCode) =>
        LET report == agent.validation[1]
            tests == 1..Len(agent.spec[1])
        IN  /\ \A i \in tests :
                   ReturnsExpected(i) =>
                       /\ report.test_results[i].passed
                       /\ report.test_results[i].actual_output = Some(Outcome(i).value)
            /\ (\A i \in tests : ReturnsExpected(i)) => report.is_valid

\* C13: when validation round k is the first in which every example passes,
\* generate returns success with refine_attempts = k - 1, the number of refine
\* calls made.
Thm_C13_RefineAttemptsAtSuccess ==
    (agent.pc = "done" /\ agent.first_valid >= 1) =>
        /\ agent.first_valid <= agent.max_refine_attempts
        /\ agent.result[1].success
        /\ agent.result[1].refine_attempts = Some(agent.first_valid - 1)
        /\ agent.refine_calls = agent.first_valid - 1

Witness_C13 ==
    /\ agent.pc = "done"
    /\ agent.first_valid >= 2
    /\ agent.result[1].success

\* C14: the report of every validation round has one result per example of the
\* specification, in declaration order, named Example_1, Example_2, ..., whatever
\* earlier rounds found.
Thm_C14_EveryRoundRunsEveryExample ==
    agent.validation # None =>
        LET report == agent.validation[1]
            examples == agent.spec[1]
        IN  /\ report.total_tests = Len(examples)
            /\ Len(report.test_results) = Len(examples)
            /\ \A i \in 1..Len(examples) :
                   /\ i <= Len(report.test_results)
                   /\ report.test_results[i].test_name = <<"Example_", i>>
                   /\ report.test_results[i].input_values = examples[i].inputs
                   /\ report.test_results[i].expected_output = examples[i].expected_output

\* a later round, after a round in which some but not all examples passed, in
\* which no example passes
Witness_C14 ==
    /\ agent.validation # None
    /\ agent.validate_calls >= 2
    /\ Len(agent.spec[1]) >= 2
    /\ agent.best_passed >= 1
    /\ agent.validation[1].passed_count = 0

\* C15: when the loop ends without a valid report, generate returns a failure
\* with the last report and the best code of the run: no validated candidate
\* passed more examples than the returned one.
Cex_C15_FailureCarriesBestCode ==
    (agent.pc = "done" /\ agent.how \in {"exhausted", "refine_failed"}) =>
        /\ ~agent.result[1].success
        /\ agent.result[1].code = agent.current_code
        /\ agent.result[1].validation = agent.validation
        /\ agent.validation[1].passed_count >= agent.best_passed

\* C16: when the oracle gives the refine tool no refinement, the loop stops at
\* once (no validation follows the failed refine call) and generate returns a
\* failure carrying the unrefined code and the report that led to the call.
Cex_C16_RefineFailureKeepsCode ==
    (agent.pc = "done" /\ agent.oracle_failed) =>
        /\ agent.refine_calls = agent.validate_calls
        /\ ~agent.result[1].success
        /\ agent.result[1].code # None
        /\ agent.result[1].code = agent.current_code
        /\ agent.result[1].validation # None
        /\ agent.result[1].validation = agent.validation

\* C17: once the implement tool has produced code, every result of generate
\* carries the current code (that code or a refinement of it), never null.
Cex_C17_ProducedCodeIsReturned ==
    (agent.pc = "done" /\ agent.implementation # None) =>
        /\ agent.result[1].code # None
        /\ agent.result[1].code = agent.current_code

\* C20: an executor call does not outlast the executor's timeout: a run still in
\* progress has not used more time than the timeout allows.
Cex_C20_RunEndsByTimeout ==
    executor.running => executor.elapsed <= executor.timeout


(***************************************************************************)
(* Further properties of the generator (specification Spec)                *)
(***************************************************************************)
\* the warnings SpecValidator.validate returns for the stored specification
StoredWarnings == IF spec = None THEN <<>> ELSE SpecValidate(spec[1]).warnings

\* the last response of the running generate_spec was built into a Spec that
\* the validator passes with at least one WARNING issue and no error
LastResponseOnlyWarns ==
    /\ run.op = "generate_spec"
    /\ log # <<>>
    /\ log[Len(log)].class \in {"semantic", "ok"}
    /\ spec # None
    /\ SpecValidate(spec[1]).raised = "none"
    /\ StoredWarnings # <<>>

\* C21: a schema-valid specification whose validation yields only WARNING
\* issues is accepted on that attempt: its warnings are logged, the Spec stays
\* stored, and generate_spec has returned with no further oracle call
Thm_C21_WarningsOnlyAccepted ==
    LastResponseOnlyWarns =>
        /\ run.outcome = "returned"
        /\ log[Len(log)].class = "ok"
        /\ log[Len(log)].warned = Len(StoredWarnings)
        /\ calls = Len(log)
        /\ attempt = Len(log)

Witness_C21 ==
    /\ LastResponseOnlyWarns
    /\ run.outcome = "returned"
    /\ Len(log) = 2
    /\ log[1].class = "semantic"


\* the stages of generate_all, each with the one that follows it
StageSuccession ==
    {<<"generate_spec", "generate_step_graph">>,
     <<"generate_step_graph", "generate_logic_from_step_graph">>,
     <<"generate_logic_from_step_graph", "generate_implementation">>}

\* this step is the caller's or generate_all's entry into the method op
Entered(op) == run.outcome # "running" /\ run'.op = op /\ vars' # vars

\* what the stages after the last one entered would have stored is absent
LaterStagesAbsent ==
    /\ run.op = "generate_spec" => step_graph = None
    /\ run.op \in {"generate_spec", "generate_step_graph"} => logic = <<>>
    /\ run.op # "generate_implementation" => implementation = <<>>

StagesInOrderStep ==
    /\ (Entered("generate_step_graph") /\ spec = None) =>
          /\ run'.outcome = "ValueError"
          /\ calls' = 0
          /\ step_graph' = step_graph
    /\ (Entered("generate_logic_from_step_graph") /\ (spec = None \/ step_graph = None)) =>
          /\ run'.outcome = "ValueError"
          /\ logic' = logic
    /\ (Entered("generate_implementation") /\ logic = <<>>) =>
          /\ run'.outcome = "ValueError"
          /\ calls' = 0
          /\ implementation' = implementation
    /\ (in_all = "running" /\ run'.op # run.op) =>
          /\ run.outcome = "returned"
          /\ <<run.op, run'.op>> \in StageSuccession
    /\ (in_all = "running" /\ run'.outcome \notin {"running", "returned"}) =>
          /\ in_all' = "raised"
          /\ LaterStagesAbsent'
    /\ in_all' = "returned" =>
          spec' # None /\ step_graph' # None /\ logic' # <<>>

\* C22: the stages run only in order: generate_step_graph raises without an
\* oracle call when no specification is stored, generate_logic_from_step_graph
\* raises unless a specification and a step graph are stored,
\* generate_implementation raises unless a skeleton exists, and in
\* generate_all a stage that raises keeps every later stage from running
Thm_C22_StagesInOrder == [][StagesInOrderStep]_vars

Witness_C22 ==
    /\ in_all = "raised"
    /\ run = [op |-> "generate_step_graph", outcome |-> "RuntimeError"]
    /\ spec # None
    /\ logic = <<>>
    /\ implementation = <<>>

\* the anchor blocks of the stored skeleton
Anchors == SelectSeq(logic, LAMBDA line : line[1] = "anchor")

\* C24: the skeleton holds exactly one anchor block per step, in the order of
\* the graph: for every step graph generate_step_graph can have stored, the
\* number of anchor blocks equals the number of steps
Cex_C24_OneAnchorPerStep ==
    (run = [op |-> "generate_logic_from_step_graph", outcome |-> "returned"]
     /\ step_graph # None) =>
        /\ Len(Anchors) = Len(step_graph[1].steps)
        /\ \A i, j \in DOMAIN Anchors : Anchors[i] = Anchors[j] => i = j
        /\ [i \in DOMAIN Anchors |-> Anchors[i][2]] = step_graph[1].order


(***************************************************************************)
(* Calls in expressions (specification SpecSV)                             *)
(***************************************************************************)
\* the expression reaches the walk of _validate_expr: it is not empty, holds
\* no forbidden token and parses
Walked(expr) ==
    /\ expr.src # <<>>
    /\ ~\E tok \in FORBIDDEN_TOKENS : Occurs(tok, expr.src)
    /\ expr.tree # None

\* the Call nodes of the expression that are not a whitelisted built-in called by bare name
UnlistedCalls(expr) ==
    LET nodes == Walk(<<expr.tree[1]>>)
    IN  {k \in DOMAIN nodes : nodes[k].kind = "Call" /\ ~WhitelistedBuiltinCall(nodes[k])}

\* the "Call not allowed" errors reported at the location
CallErrorsAt(r, location) ==
    {n \in DOMAIN r.message :
        /\ r.message[n][1] = "ERROR"
        /\ r.message[n][2] = "PRED_UNSAFE_NODE"
        /\ r.message[n][3] = location
        /\ r.message[n][4][1] = "Call not allowed"}

\* C23: a call gets no PRED_UNSAFE_NODE only when its callee is one of len,
\* abs, min, max, sum, all, any called by bare name; every other call (another
\* name, a method or attribute call whatever the attribute is named, a computed
\* callee) yields an ERROR PRED_UNSAFE_NODE of its own
Cex_C23_OnlyBareWhitelistedCallsPass ==
    ret # None =>
        \A i \in DOMAIN arg.pre :
            (Walked(arg.pre[i].expr) /\ \A j \in DOMAIN arg.pre : arg.pre[j].id = arg.pre[i].id => j = i) =>
                Cardinality(CallErrorsAt(ret[1], <<"pre", arg.pre[i].id, "expr">>))
                    = Cardinality(UnlistedCalls(arg.pre[i].expr))


(***************************************************************************)
(* Further properties of the agent and its executor (specification         *)
(* SpecAgent)                                                              *)
(***************************************************************************)
SecurityFindings == {Some("dangerous function"), Some("dangerous module"), Some("dangerous pattern")}

\* the test program ValidateTool builds for example i of the stored specification
CurrentTest(i) == TestCode(agent.current_code[1], "f", ArgsStr(agent.spec[1][i].inputs))

\* the stored report is that of a validation of the current code
ReportStored ==
    /\ agent # <<>>
    /\ agent.validation # None
    /\ agent.current_code # None
    /\ ReportOfCurrentCode

\* C25: with security enabled, run checks the code before it compiles or
\* executes anything: code the check flags is never executed, the result is
\* SECURITY_ERROR, and the execution counter is unchanged
Thm_C25_FlaggedCodeNeverRuns ==
    (executor # <<>> /\ executor.enable_security) =>
        /\ executor.flagged_executed = 0
        /\ executor.runs = executor.flagged => executor.execution_count = 0
        /\ ReportStored =>
              \A i \in DOMAIN agent.validation[1].test_results :
                  Flagged(CurrentTest(i)) =>
                      /\ ~agent.validation[1].test_results[i].passed
                      /\ agent.validation[1].test_results[i].actual_output = None
                      /\ agent.validation[1].test_results[i].error \in SecurityFindings

Witness_C25 ==
    /\ executor # <<>>
    /\ executor.enable_security
    /\ executor.flagged >= 2
    /\ ReportStored
    /\ Flagged(agent.current_code[1])


\* the run got into the validate/refine loop and generate returned its result
LoopResult == agent.pc = "done" /\ agent.how \in {"valid", "refine_failed", "exhausted"}

\* C28: the refine_attempts of every result of the validate/refine loop is
\* the number of refine-tool calls made during the run, on success and on
\* failure alike (budget exhaustion and the abort after a failed refine included)
Cex_C28_RefineAttemptsCountsRefineCalls ==
    LoopResult => agent.result[1].refine_attempts = Some(agent.refine_calls)

\* C29: with max_refine_attempts = n >= 1 the loop stops only on success, on a
\* failed refine or on exhausting its budget: at most n validations and n - 1
\* refine calls, validation and refinement alternate starting with a
\* validation, every successful refine is followed by a validation, and the
\* returned code is the code the returned report examined
Cex_C29_LoopStopsOnlyThreeWays ==
    (agent.max_refine_attempts >= 1 /\ agent.implementation # None) =>
        /\ agent.validate_calls <= agent.max_refine_attempts
        /\ agent.refine_calls <= agent.max_refine_attempts - 1
        /\ agent.refine_calls <= agent.validate_calls
        /\ agent.validate_calls <= agent.refine_calls + 1
        /\ agent.pc = "done" =>
              /\ LoopResult
              /\ agent.how = "valid" => agent.result[1].success /\ agent.validation[1].is_valid
              /\ agent.how = "exhausted" =>
                    /\ agent.validate_calls = agent.max_refine_attempts
                    /\ agent.refine_calls = agent.max_refine_attempts - 1
              /\ agent.how = "refine_failed" => agent.refine_calls = agent.validate_calls
              /\ agent.how # "refine_failed" => agent.validate_calls = agent.refine_calls + 1
              /\ agent.result[1].code = agent.current_code
              /\ agent.result[1].validation = agent.validation
              /\ agent.validation # None

\* the stored specification has no examples and a validation of it returned
ValidatedWithoutExamples == agent.spec = Some(<<>>) /\ agent.validate_calls >= 1

\* C30: for a specification without examples ValidateTool reports is_valid
\* with total_tests = 0 and passed_count = 0 without executing the code, and
\* the agent then returns success with refine_attempts = 0 and no refine call
Thm_C30_NoExamplesIsSuccess ==
    ValidatedWithoutExamples =>
        /\ agent.validation # None
        /\ agent.validation[1].is_valid
        /\ agent.validation[1].total_tests = 0
        /\ agent.validation[1].passed_count = 0
        /\ agent.validation[1].test_results = <<>>
        /\ executor.runs = 0
        /\ executor.execution_count = 0
        /\ agent.pc = "done"
        /\ agent.result[1].success
        /\ agent.result[1].refine_attempts = Some(0)
        /\ agent.result[1].code = agent.current_code
        /\ agent.refine_calls = 0
        /\ agent.validate_calls = 1

Witness_C30 ==
    /\ ValidatedWithoutExamples
    /\ agent.pc = "done"
    /\ agent.max_refine_attempts >= 2
    /\ agent.result[1].success

(***************************************************************************)
(* codegen/graph.py: Graph.  Node ids are uuid4 strings; the model numbers *)
(* them in the order add_node creates them.  nodes is kept as the set of   *)
(* its keys (the code and debug_info of a Node play no part).              *)
(***************************************************************************)
MaxNodes == 3

NodeIds == 1..MaxNodes

\* an id add_node has returned for no node
MissingId == MaxNodes + 1

\* Graph()
GraphConstructed ==
    [nodes |-> {}, edges |-> [n \in {} |-> {}], reverse_edges |-> [n \in {} |-> {}]]

\* self.edges.get(current, [])
EdgesGet(g, n) == IF n \in DOMAIN g.edges THEN g.edges[n] ELSE {}

\* the sequences in which iterating a set can yield its members
Enumerations(S) == {q \in [1..Cardinality(S) -> S] : ToSet(q) = S}

\* add_node
AddNode(g, id) ==
    [nodes |-> g.nodes \cup {id},
     edges |-> [n \in DOMAIN g.edges \cup {id} |-> IF n = id THEN {} ELSE g.edges[n]],
     reverse_edges |-> [n \in DOMAIN g.reverse_edges \cup {id} |->
                           IF n = id THEN {} ELSE g.reverse_edges[n]]]

\* the while loop of _would_create_cycle; the order in which the successors
\* of a node are pushed is that of a set iteration, and the answer is the
\* same for each of them
RECURSIVE CycleSearch(_, _, _, _)
CycleSearch(g, src_id, stack, visited) ==
    IF stack = <<>> THEN FALSE
    ELSE LET current == stack[Len(stack)]
             rest == SubSeq(stack, 1, Len(stack) - 1)
         IN  IF current = src_id THEN TRUE
             ELSE IF current \in visited THEN CycleSearch(g, src_id, rest, visited)
             ELSE CycleSearch(g, src_id,
                              rest \o (CHOOSE q \in Enumerations(EdgesGet(g, current)) : TRUE),
                              visited \cup {current})

\* a search that looks at the edges of dest_id only
WouldCreateCycleOneEdge(g, src_id, dest_id) == src_id \in EdgesGet(g, dest_id)

\* _would_create_cycle
WouldCreateCycle(g, src_id, dest_id) == CycleSearch(g, src_id, <<dest_id>>, {})

\* connect_nodes: the exception it raises ("none": it returns True) and the graph it leaves
ConnectNodes(g, src_id, dest_id) ==
    IF src_id \notin g.nodes \/ dest_id \notin g.nodes
    THEN [raised |-> "ValueError", graph |-> g]
    ELSE IF dest_id = src_id
    THEN [raised |-> "ValueError", graph |-> g]
    ELSE IF WouldCreateCycle(g, src_id, dest_id)
    THEN [raised |-> "ValueError", graph |-> g]
    ELSE [raised |-> "none",
          graph |-> [g EXCEPT !.edges[src_id] = @ \cup {dest_id},
                              !.reverse_edges[dest_id] = @ \cup {src_id}]]

\* the while loop of topological_sort: the lists sorted_nodes can end as, one
\* for each order in which "for node_id in self.edges[current_node_id]" can
\* iterate the set
RECURSIVE SortLoop(_, _, _, _)
SortLoop(g, queue, in_degree, sorted_nodes) ==
    IF queue = <<>> THEN {sorted_nodes}
    ELSE LET current_node_id == Head(queue)
             lowered == [n \in DOMAIN in_degree |->
                            IF n \in g.edges[current_node_id] THEN in_degree[n] - 1
                            ELSE in_degree[n]]
             freed == {n \in g.edges[current_node_id] : lowered[n] = 0}
         IN  UNION {SortLoop(g, Tail(queue) \o q, lowered, Append(sorted_nodes, current_node_id)) :
                       q \in Enumerations(freed)}

\* the keys of a dict in insertion order: ids are numbered as they are added
InsertionOrder(S) == CHOOSE q \in Enumerations(S) : \A i, j \in DOMAIN q : i < j => q[i] < q[j]

\* topological_sort: its possible outcomes
TopologicalSort(g) ==
    LET in_degree == [n \in g.nodes |->
                         IF n \in DOMAIN g.reverse_edges THEN Cardinality(g.reverse_edges[n]) ELSE 0]
        queue == SelectSeq(InsertionOrder(g.nodes), LAMBDA n : in_degree[n] = 0)
    IN  {IF Len(sorted_nodes) # Cardinality(g.nodes)
         THEN [raised |-> "ValueError", order |-> <<>>]
         ELSE [raised |-> "none", order |-> sorted_nodes] :
            sorted_nodes \in SortLoop(g, queue, in_degree, <<>>)}

InitGraph ==
    /\ code_graph = GraphConstructed
    /\ workflow = <<>>
    /\ last = [op |-> "__init__"]
    /\ request = <<>>
    /\ GeneratorConstructed
    /\ NoAgent
    /\ arg = None
    /\ ret = None

GraphAddNode ==
    /\ Cardinality(code_graph.nodes) < MaxNodes
    /\ \E id \in {Cardinality(code_graph.nodes) + 1} :
         /\ code_graph' = AddNode(code_graph, id)
         /\ last' = [op |-> "add_node", id |-> id]
    /\ UNCHANGED <<workflow, arg, ret, genVars, agentVars>>

GraphConnectNodes(src_id, dest_id) ==
    /\ \E res \in {ConnectNodes(code_graph, src_id, dest_id)} :
         /\ code_graph' = res.graph
         /\ last' = [op |-> "connect_nodes", src_id |-> src_id, dest_id |-> dest_id,
                     outcome |-> IF res.raised = "none" THEN "True" ELSE res.raised,
                     before |-> code_graph]
    /\ UNCHANGED <<workflow, arg, ret, genVars, agentVars>>

GraphTopologicalSort ==
    /\ \E res \in TopologicalSort(code_graph) :
         last' = [op |-> "topological_sort",
                  outcome |-> IF res.raised = "none" THEN "returned" ELSE res.raised,
                  order |-> res.order]
    /\ UNCHANGED <<code_graph, workflow, arg, ret, genVars, agentVars>>

NextGraph ==
    \/ GraphAddNode
    \/ \E src_id, dest_id \in NodeIds \cup {MissingId} : GraphConnectNodes(src_id, dest_id)
    \/ GraphTopologicalSort

SpecGraph == InitGraph /\ [][NextGraph]_vars

\* the nodes reachable from the set S along edges, S included
RECURSIVE ReachableFrom(_, _)
ReachableFrom(g, S) ==
    LET T == S \cup UNION {g.edges[n] : n \in S}
    IN  IF T = S THEN S ELSE ReachableFrom(g, T)

EdgesAcyclic(g) == \A n \in g.nodes : n \notin ReachableFrom(g, g.edges[n])

Mirrored(g) ==
    /\ DOMAIN g.edges = g.nodes
    /\ DOMAIN g.reverse_edges = g.nodes
    /\ \A a, b \in g.nodes : b \in g.edges[a] <=> a \in g.reverse_edges[b]

\* the list holds every node once, each edge's source before its target
TopologicalOrderOf(g, order) ==
    /\ ToSet(order) = g.nodes
    /\ Len(order) = Cardinality(g.nodes)
    /\ \A i, j \in DOMAIN order : order[j] \in g.edges[order[i]] => i < j

\* C26: after any sequence of add_node and connect_nodes calls, rejected ones
\* included, the edges are acyclic and edges and reverse_edges mirror each
\* other; a connect_nodes call that would close a cycle, names a missing node
\* or connects a node to itself raises ValueError and changes nothing; so
\* topological_sort never raises and returns every node once, each edge's
\* source before its target
Thm_C26_GraphStaysAcyclicAndMirrored ==
    code_graph # <<>> =>
        /\ EdgesAcyclic(code_graph)
        /\ Mirrored(code_graph)
        /\ \A res \in TopologicalSort(code_graph) :
              res.raised = "none" /\ TopologicalOrderOf(code_graph, res.order)
        /\ last.op = "topological_sort" =>
              last.outcome = "returned" /\ TopologicalOrderOf(code_graph, last.order)
        /\ last.op = "connect_nodes" =>
              /\ last.outcome = "ValueError" <=>
                    \/ last.src_id \notin last.before.nodes
                    \/ last.dest_id \notin last.before.nodes
                    \/ last.src_id = last.dest_id
                    \/ last.src_id \in ReachableFrom(last.before, {last.dest_id})
              /\ last.outcome = "ValueError" => code_graph = last.before
              /\ last.outcome = "True" =>
                    /\ code_graph.nodes = last.before.nodes
                    /\ code_graph.edges =
                          [last.before.edges EXCEPT ![last.src_id] = @ \cup {last.dest_id}]

Witness_C26 ==
    /\ code_graph # <<>>
    /\ last.op = "connect_nodes"
    /\ last.outcome = "ValueError"
    /\ last.src_id \in code_graph.nodes
    /\ last.dest_id \in code_graph.nodes
    /\ last.src_id # last.dest_id
    /\ last.src_id \notin code_graph.edges[last.dest_id]


(***************************************************************************)
(* tools/collaborative_framework.py: DAGWorkflow.  nodes is a dict: stages *)
(* holds its keys in insertion order, nodes the DAGNode of each key.       *)
(***************************************************************************)
MaxAdds == 3

\* three members of CognitiveStage
Stages == {"requirement_analysis", "architecture_design", "algorithm_selection"}

\* the dependency lists add_stage is called with
DependencyLists ==
    {<<>>, <<"requirement_analysis">>, <<"architecture_design">>,
     <<"requirement_analysis", "architecture_design">>}

DAGNode(stage, dependencies) ==
    [stage |-> stage, dependencies |-> dependencies, dependents |-> <<>>]

\* DAGWorkflow(); adds counts the add_stage calls made
WorkflowConstructed ==
    [stages |-> <<>>, nodes |-> [n \in {} |-> DAGNode(n, <<>>)], execution_order |-> <<>>,
     adds |-> 0]

\* "for dep in node.dependencies: if dep in self.nodes: ...dependents.append(stage)"
RECURSIVE UpdateDependents(_, _, _)
UpdateDependents(nodes, stage, deps) ==
    IF deps = <<>> THEN nodes
    ELSE UpdateDependents(
             IF Head(deps) \in DOMAIN nodes
             THEN [nodes EXCEPT ![Head(deps)].dependents = Append(@, stage)]
             ELSE nodes,
             stage, Tail(deps))

\* add_stage
AddStage(w, stage, dependencies) ==
    LET stored == [n \in DOMAIN w.nodes \cup {stage} |->
                      IF n = stage THEN DAGNode(stage, dependencies) ELSE w.nodes[n]]
    IN  [w EXCEPT !.stages = IF stage \in DOMAIN w.nodes THEN @ ELSE Append(@, stage),
                  !.nodes = UpdateDependents(stored, stage, dependencies),
                  !.adds = @ + 1]

\* the nested function dfs of get_execution_order, on the sets and the list
\* it shares with its caller; raised is the exception that left it
RECURSIVE Dfs(_, _, _)
RECURSIVE DfsEach(_, _, _)
Dfs(w, stage, st) ==
    IF st.raised # "none" THEN st
    ELSE IF stage \in st.temp_visited THEN [st EXCEPT !.raised = "ValueError"]
    ELSE IF stage \in st.visited THEN st
    ELSE IF stage \notin DOMAIN w.nodes THEN [st EXCEPT !.raised = "KeyError"]
    ELSE LET after == DfsEach(w, w.nodes[stage].dependencies,
                              [st EXCEPT !.temp_visited = @ \cup {stage}])
         IN  IF after.raised # "none" THEN after
             ELSE [after EXCEPT !.temp_visited = @ \ {stage},
                                !.visited = @ \cup {stage},
                                !.order = Append(@, stage)]

\* "for dep in ...: dfs(dep)", and "for stage in self.nodes: if stage not in visited: dfs(stage)"
DfsEach(w, stages, st) ==
    IF stages = <<>> \/ st.raised # "none" THEN st
    ELSE DfsEach(w, Tail(stages), Dfs(w, Head(stages), st))

\* get_execution_order: what it raises or returns, and the workflow it leaves
GetExecutionOrder(w) ==
    IF w.execution_order # <<>>
    THEN [raised |-> "none", order |-> w.execution_order, workflow |-> w]
    ELSE LET st == DfsEach(w, w.stages,
                           [visited |-> {}, temp_visited |-> {}, order |-> <<>>, raised |-> "none"])
         IN  IF st.raised # "none"
             THEN [raised |-> st.raised, order |-> <<>>, workflow |-> w]
             ELSE [raised |-> "none", order |-> st.order,
                   workflow |-> [w EXCEPT !.execution_order = st.order]]

InitWorkflow ==
    /\ workflow = WorkflowConstructed
    /\ code_graph = <<>>
    /\ last = [op |-> "__init__"]
    /\ request = <<>>
    /\ GeneratorConstructed
    /\ NoAgent
    /\ arg = None
    /\ ret = None

WorkflowAddStage(stage, dependencies) ==
    /\ workflow.adds < MaxAdds
    /\ workflow' = AddStage(workflow, stage, dependencies)
    /\ last' = [op |-> "add_stage", stage |-> stage]
    /\ UNCHANGED <<code_graph, arg, ret, genVars, agentVars>>

WorkflowGetExecutionOrder ==
    /\ \E res \in {GetExecutionOrder(workflow)} :
         /\ workflow' = res.workflow
         /\ last' = [op |-> "get_execution_order",
                     outcome |-> IF res.raised = "none" THEN "returned" ELSE res.raised,
                     order |-> res.order]
    /\ UNCHANGED <<code_graph, arg, ret, genVars, agentVars>>

NextWorkflow ==
    \/ \E stage \in Stages, dependencies \in DependencyLists : WorkflowAddStage(stage, dependencies)
    \/ WorkflowGetExecutionOrder

SpecWorkflow == InitWorkflow /\ [][NextWorkflow]_vars

\* the stages a stage depends on, directly or through other stages
RECURSIVE DependsOn(_, _)
DependsOn(w, S) ==
    LET T == S \cup UNION {ToSet(w.nodes[n].dependencies) : n \in S \cap DOMAIN w.nodes}
    IN  IF T = S THEN S ELSE DependsOn(w, T)

\* every dependency names an added stage and no stage depends on itself
DependenciesWellFormed(w) ==
    \A n \in DOMAIN w.nodes :
        /\ ToSet(w.nodes[n].dependencies) \subseteq DOMAIN w.nodes
        /\ n \notin DependsOn(w, ToSet(w.nodes[n].dependencies))

\* the list holds every stage of the workflow once, each after all its dependencies
ExecutionOrderOf(w, order) ==
    /\ ToSet(order) = DOMAIN w.nodes
    /\ Len(order) = Cardinality(DOMAIN w.nodes)
    /\ \A i \in DOMAIN order :
          \A d \in ToSet(w.nodes[order[i]].dependencies) : \E j \in 1..(i - 1) : order[j] = d

\* C27: on a workflow whose dependencies are acyclic and all name added
\* stages, get_execution_order returns every stage currently in the workflow
\* exactly once, each after all of its dependencies, also for stages added
\* after an earlier get_execution_order call
Cex_C27_ExecutionOrderCoversCurrentStages ==
    (workflow # <<>> /\ last.op = "get_execution_order" /\ DependenciesWellFormed(workflow)) =>
        /\ last.outcome = "returned"
        /\ ExecutionOrderOf(workflow, last.order)

====
